---------------------------- MODULE Spec2Model ----------------------------
(***************************************************************************)
(* Heuristic Bloom's-taxonomy classifier of src/app/routes_vialli.py:      *)
(* analyze_question_blooms_level and its helpers, as a state machine of    *)
(* caller threads stepping through the pipeline.                           *)
(*                                                                         *)
(* Numbers.  Scores, weights and complexity values are decimal numbers     *)
(* with at most two fractional digits in the source; they are kept as      *)
(* integers counting hundredths (1.5 is 150).  Scores and complexity       *)
(* values are IEEE-754 doubles, modelled exactly; confidences are          *)
(* fixed-point numbers counting 10^-8, each operation rounded to the       *)
(* nearest unit.                                                           *)
(*                                                                         *)
(* Text.  Python str values are TLA+ strings; str methods and the regular  *)
(* expressions of the source are operators over them.                      *)
(***************************************************************************)
EXTENDS Integers, Sequences, FiniteSets, TLC

---------------------------------------------------------------------------
(* Python values handed to the classifier: a str, None, or an int.         *)
PyStr(s) == [type |-> "str", val |-> s]
PyNone == [type |-> "NoneType", val |-> ""]
PyInt(s) == [type |-> "int", val |-> s]

(* bool(x) as used by "if document_text" and "if not ..." *)
Truthy(x) ==
    CASE x.type = "str" -> x.val # ""
      [] x.type = "NoneType" -> FALSE
      [] x.type = "int" -> x.val # "0"

---------------------------------------------------------------------------
(* Characters and str methods *)
UpperAlpha == "ABCDEFGHIJKLMNOPQRSTUVWXYZ"
LowerAlpha == "abcdefghijklmnopqrstuvwxyz"
Digits == "0123456789"

CharAt(s, i) == SubSeq(s, i, i)

CharsOf(s) == {CharAt(s, i) : i \in 1..Len(s)}

UpperChars == CharsOf(UpperAlpha)
LowerChars == CharsOf(LowerAlpha)
DigitChars == CharsOf(Digits)

(* \w of the re module on the characters the model uses *)
IsWordChar(c) == c \in UpperChars \cup LowerChars \cup DigitChars \cup {"_"}

(* \s of the re module, and the whitespace of str.strip() / str.split() *)
IsSpace(c) == c \in {" ", "\t", "\n"}

LowerChar(c) ==
    IF c \in UpperChars
    THEN CharAt(LowerAlpha, CHOOSE i \in 1..Len(UpperAlpha) : CharAt(UpperAlpha, i) = c)
    ELSE c

(* "".join(f[i] for i in range(lo, hi + 1)), splitting the range in halves *)
RECURSIVE JoinRange(_, _, _)
JoinRange(f, lo, hi) ==
    IF lo > hi THEN ""
    ELSE IF lo = hi THEN f[lo]
         ELSE LET mid == (lo + hi) \div 2
              IN JoinRange(f, lo, mid) \o JoinRange(f, mid + 1, hi)

(* str.lower() *)
Lower(s) == JoinRange([i \in 1..Len(s) |-> LowerChar(CharAt(s, i))], 1, Len(s))

(* str.strip() *)
Strip(s) ==
    LET kept == {i \in 1..Len(s) : ~IsSpace(CharAt(s, i))}
    IN IF kept = {} THEN ""
       ELSE SubSeq(s, CHOOSE i \in kept : \A j \in kept : i <= j,
                      CHOOSE i \in kept : \A j \in kept : j <= i)

(* "sub in s" on two str values *)
Contains(s, sub) ==
    \E i \in 1..(Len(s) - Len(sub) + 1) : SubSeq(s, i, i + Len(sub) - 1) = sub

(* str.startswith *)
StartsWith(s, pre) == Len(s) >= Len(pre) /\ SubSeq(s, 1, Len(pre)) = pre

(* The maximal runs of the characters satisfying In, in order: a run starts *)
(* where the character before is absent or outside, and ends likewise       *)
Runs(s, In(_)) ==
    LET starts == {i \in 1..Len(s) :
                      In(CharAt(s, i)) /\ (i = 1 \/ ~In(CharAt(s, i - 1)))}
        ends == {i \in 1..Len(s) :
                    In(CharAt(s, i)) /\ (i = Len(s) \/ ~In(CharAt(s, i + 1)))}
        Nth(set, k) == CHOOSE i \in set : Cardinality({j \in set : j <= i}) = k
    IN [k \in 1..Cardinality(starts) |-> SubSeq(s, Nth(starts, k), Nth(ends, k))]

(* str.split(): the maximal runs of non-whitespace characters *)
NotSpace(c) == ~IsSpace(c)
Split(s) == Runs(s, NotSpace)

(* re.sub(r'[^\w\s]', ' ', s) *)
SubPunct(s) ==
    JoinRange([i \in 1..Len(s) |->
                  IF IsWordChar(CharAt(s, i)) \/ IsSpace(CharAt(s, i)) THEN CharAt(s, i) ELSE " "],
              1, Len(s))

(* re.sub(r'\s+', ' ', s): every maximal whitespace run becomes one space *)
SubSpaces(s) ==
    JoinRange([i \in 1..Len(s) |->
                  IF IsSpace(CharAt(s, i))
                  THEN (IF i > 1 /\ IsSpace(CharAt(s, i - 1)) THEN "" ELSE " ")
                  ELSE CharAt(s, i)],
              1, Len(s))

---------------------------------------------------------------------------
(* Regular expressions.  Every pattern of the source is a concatenation of *)
(* literals and groups of alternatives, optionally anchored by ^; an       *)
(* alternative is a literal or ".*".  A pattern is [anchored, items] with  *)
(* items a sequence of alternative lists; ".*" matches any run of          *)
(* characters other than newline.                                          *)
NoNewline(s, i, j) == \A k \in i..j : CharAt(s, k) # "\n"

RECURSIVE MatchFrom(_, _, _, _)
MatchFrom(items, k, s, pos) ==
    \/ k > Len(items)
    \/ \E a \in 1..Len(items[k]) :
          LET alt == items[k][a] IN
          IF alt = ".*"
          THEN \E j \in pos..(Len(s) + 1) :
                   NoNewline(s, pos, j - 1) /\ MatchFrom(items, k + 1, s, j)
          ELSE /\ pos + Len(alt) - 1 <= Len(s)
               /\ SubSeq(s, pos, pos + Len(alt) - 1) = alt
               /\ MatchFrom(items, k + 1, s, pos + Len(alt))

(* re.search(pattern, s) is not None *)
Search(pattern, s) ==
    IF pattern.anchored
    THEN MatchFrom(pattern.items, 1, s, 1)
    ELSE \E pos \in 1..(Len(s) + 1) : MatchFrom(pattern.items, 1, s, pos)

(* re.search(r'\b' + re.escape(keyword) + r'\b', s) is not None; every     *)
(* keyword begins and ends with a word character, so \b holds where the    *)
(* neighbouring character is absent or not a word character                *)
SearchWord(keyword, s) ==
    \E i \in 1..(Len(s) - Len(keyword) + 1) :
        /\ SubSeq(s, i, i + Len(keyword) - 1) = keyword
        /\ (i = 1 \/ ~IsWordChar(CharAt(s, i - 1)))
        /\ (i + Len(keyword) > Len(s) \/ ~IsWordChar(CharAt(s, i + Len(keyword))))

---------------------------------------------------------------------------
(* blooms_processes: the level table built at the start of every call.     *)
(* weight and complexity_threshold are in hundredths.                      *)
Remembering_profile ==
    [ keywords |-> <<"recall", "list", "define", "identify", "name", "state", "recognize", "select", "match", "memorize", "what is the", "what are the", "who was", "when did", "where is">>,
      question_patterns |-> <<
          \* r'^what is the (name|value|date|capital|definition)'
          [anchored |-> TRUE, items |-> << <<"what is the ">>, <<"name", "value", "date", "capital", "definition">> >>],
          \* r'^what are the (three|four|key) (steps|parts|types)'
          [anchored |-> TRUE, items |-> << <<"what are the ">>, <<"three", "four", "key">>, <<" ">>, <<"steps", "parts", "types">> >>],
          \* r'^who (is|was) (the|a)'
          [anchored |-> TRUE, items |-> << <<"who ">>, <<"is", "was">>, <<" ">>, <<"the", "a">> >>],
          \* r'^when did (the|.*) (happen|occur|start)'
          [anchored |-> TRUE, items |-> << <<"when did ">>, <<"the", ".*">>, <<" ">>, <<"happen", "occur", "start">> >>],
          \* r'^where is (the|.*) (located|found)'
          [anchored |-> TRUE, items |-> << <<"where is ">>, <<"the", ".*">>, <<" ">>, <<"located", "found">> >>],
          \* r'^name (all|the|three)'
          [anchored |-> TRUE, items |-> << <<"name ">>, <<"all", "the", "three">> >>],
          \* r'^list (the|all|three)'
          [anchored |-> TRUE, items |-> << <<"list ">>, <<"the", "all", "three">> >>],
          \* r'^define'
          [anchored |-> TRUE, items |-> << <<"define">> >>],
          \* r'^what was the (first|last|result)'
          [anchored |-> TRUE, items |-> << <<"what was the ">>, <<"first", "last", "result">> >>]
      >>,
      verbs |-> {"is", "are", "was", "were", "did", "does", "has", "have"},
      weight |-> 100,
      complexity_threshold |-> 20 ]

Understanding_profile ==
    [ keywords |-> <<"explain", "summarize", "interpret", "paraphrase", "classify", "describe", "discuss", "restate", "translate", "outline", "main idea", "in your own words", "difference between">>,
      question_patterns |-> <<
          \* r'explain (why|how)'
          [anchored |-> FALSE, items |-> << <<"explain ">>, <<"why", "how">> >>],
          \* r'summarize'
          [anchored |-> FALSE, items |-> << <<"summarize">> >>],
          \* r'what does (.*) mean'
          [anchored |-> FALSE, items |-> << <<"what does ">>, <<".*">>, <<" mean">> >>],
          \* r'in your own words'
          [anchored |-> FALSE, items |-> << <<"in your own words">> >>],
          \* r'how would you describe'
          [anchored |-> FALSE, items |-> << <<"how would you describe">> >>],
          \* r'what is the main idea'
          [anchored |-> FALSE, items |-> << <<"what is the main idea">> >>],
          \* r'what is the purpose of'
          [anchored |-> FALSE, items |-> << <<"what is the purpose of">> >>],
          \* r'give an example of'
          [anchored |-> FALSE, items |-> << <<"give an example of">> >>],
          \* r'what can you infer from'
          [anchored |-> FALSE, items |-> << <<"what can you infer from">> >>],
          \* r'how does (.*) work'
          [anchored |-> FALSE, items |-> << <<"how does ">>, <<".*">>, <<" work">> >>],
          \* r'how (.*) works'
          [anchored |-> FALSE, items |-> << <<"how ">>, <<".*">>, <<" works">> >>],
          \* r'why is (.*) important'
          [anchored |-> FALSE, items |-> << <<"why is ">>, <<".*">>, <<" important">> >>],
          \* r'how would you explain (.*)'
          [anchored |-> FALSE, items |-> << <<"how would you explain ">>, <<".*">> >>],
          \* r'what happens when'
          [anchored |-> FALSE, items |-> << <<"what happens when">> >>],
          \* r'what is the difference between'
          [anchored |-> FALSE, items |-> << <<"what is the difference between">> >>],
          \* r'what are the differences between'
          [anchored |-> FALSE, items |-> << <<"what are the differences between">> >>],
          \* r'distinguish between'
          [anchored |-> FALSE, items |-> << <<"distinguish between">> >>],
          \* r'how is (.*) different from'
          [anchored |-> FALSE, items |-> << <<"how is ">>, <<".*">>, <<" different from">> >>]
      >>,
      verbs |-> {"explain", "describe", "summarize", "interpret", "discuss", "paraphrase", "distinguish", "breakdown"},
      weight |-> 120,
      complexity_threshold |-> 40 ]

Applying_profile ==
    [ keywords |-> <<"use", "apply", "implement", "solve", "demonstrate", "show how", "employ", "illustrate", "execute", "calculate", "model">>,
      question_patterns |-> <<
          \* r'how would you use (.*) to'
          [anchored |-> FALSE, items |-> << <<"how would you use ">>, <<".*">>, <<" to">> >>],
          \* r'what would happen if'
          [anchored |-> FALSE, items |-> << <<"what would happen if">> >>],
          \* r'how would you solve (this|the following) problem'
          [anchored |-> FALSE, items |-> << <<"how would you solve ">>, <<"this", "the following">>, <<" problem">> >>],
          \* r'demonstrate how (to|you)'
          [anchored |-> FALSE, items |-> << <<"demonstrate how ">>, <<"to", "you">> >>],
          \* r'apply (the|this) (principle|rule|law) (to|for)'
          [anchored |-> FALSE, items |-> << <<"apply ">>, <<"the", "this">>, <<" ">>, <<"principle", "rule", "law">>, <<" ">>, <<"to", "for">> >>],
          \* r'solve for'
          [anchored |-> FALSE, items |-> << <<"solve for">> >>],
          \* r'use (.*) to (show|demonstrate|solve)'
          [anchored |-> FALSE, items |-> << <<"use ">>, <<".*">>, <<" to ">>, <<"show", "demonstrate", "solve">> >>],
          \* r'calculate the'
          [anchored |-> FALSE, items |-> << <<"calculate the">> >>],
          \* r'perform (the|a) (calculation|procedure|experiment)'
          [anchored |-> FALSE, items |-> << <<"perform ">>, <<"the", "a">>, <<" ">>, <<"calculation", "procedure", "experiment">> >>],
          \* r'carry out (the|this) (task|process)'
          [anchored |-> FALSE, items |-> << <<"carry out ">>, <<"the", "this">>, <<" ">>, <<"task", "process">> >>]
      >>,
      verbs |-> {"use", "apply", "solve", "demonstrate", "implement", "calculate"},
      weight |-> 130,
      complexity_threshold |-> 50 ]

Analyzing_profile ==
    [ keywords |-> <<"analyze", "compare", "contrast", "differentiate", "examine", "investigate", "categorize", "organize", "deduce", "distinguish", "relationship", "cause", "effect", "similarities between">>,
      question_patterns |-> <<
          \* r'what are the similarities between'
          [anchored |-> FALSE, items |-> << <<"what are the similarities between">> >>],
          \* r'compare and contrast'
          [anchored |-> FALSE, items |-> << <<"compare and contrast">> >>],
          \* r'analyze (how|why)'
          [anchored |-> FALSE, items |-> << <<"analyze ">>, <<"how", "why">> >>],
          \* r'why do you think'
          [anchored |-> FALSE, items |-> << <<"why do you think">> >>],
          \* r'what evidence supports'
          [anchored |-> FALSE, items |-> << <<"what evidence supports">> >>],
          \* r'how is (.*) related to'
          [anchored |-> FALSE, items |-> << <<"how is ">>, <<".*">>, <<" related to">> >>],
          \* r'what factors contribute to'
          [anchored |-> FALSE, items |-> << <<"what factors contribute to">> >>],
          \* r'break down'
          [anchored |-> FALSE, items |-> << <<"break down">> >>],
          \* r'examine the causes of'
          [anchored |-> FALSE, items |-> << <<"examine the causes of">> >>],
          \* r'what is the relationship between'
          [anchored |-> FALSE, items |-> << <<"what is the relationship between">> >>],
          \* r'why is (.*) different from'
          [anchored |-> FALSE, items |-> << <<"why is ">>, <<".*">>, <<" different from">> >>],
          \* r'how would you categorize (.*)'
          [anchored |-> FALSE, items |-> << <<"how would you categorize ">>, <<".*">> >>],
          \* r'what components make up (.*)'
          [anchored |-> FALSE, items |-> << <<"what components make up ">>, <<".*">> >>],
          \* r'what is the underlying cause of'
          [anchored |-> FALSE, items |-> << <<"what is the underlying cause of">> >>],
          \* r'how does (.*) influence (.*)'
          [anchored |-> FALSE, items |-> << <<"how does ">>, <<".*">>, <<" influence ">>, <<".*">> >>],
          \* r'what assumptions underlie (.*)'
          [anchored |-> FALSE, items |-> << <<"what assumptions underlie ">>, <<".*">> >>]
      >>,
      verbs |-> {"analyze", "compare", "contrast", "examine", "investigate", "categorize", "differentiate"},
      weight |-> 140,
      complexity_threshold |-> 70 ]

Evaluating_profile ==
    [ keywords |-> <<"evaluate", "judge", "critique", "justify", "defend", "argue", "assess", "rate", "recommend", "appraise", "prioritize", "opinion", "do you agree">>,
      question_patterns |-> <<
          \* r'do you agree (with|that)'
          [anchored |-> FALSE, items |-> << <<"do you agree ">>, <<"with", "that">> >>],
          \* r'what is your opinion (on|about)'
          [anchored |-> FALSE, items |-> << <<"what is your opinion ">>, <<"on", "about">> >>],
          \* r'how effective (is|was)'
          [anchored |-> FALSE, items |-> << <<"how effective ">>, <<"is", "was">> >>],
          \* r'justify your (answer|position)'
          [anchored |-> FALSE, items |-> << <<"justify your ">>, <<"answer", "position">> >>],
          \* r'defend your (position|argument)'
          [anchored |-> FALSE, items |-> << <<"defend your ">>, <<"position", "argument">> >>],
          \* r'critique (the|this)'
          [anchored |-> FALSE, items |-> << <<"critique ">>, <<"the", "this">> >>],
          \* r'evaluate (the|this) (decision|method)'
          [anchored |-> FALSE, items |-> << <<"evaluate ">>, <<"the", "this">>, <<" ">>, <<"decision", "method">> >>],
          \* r'which is (better|more effective)'
          [anchored |-> FALSE, items |-> << <<"which is ">>, <<"better", "more effective">> >>],
          \* r'what would you recommend'
          [anchored |-> FALSE, items |-> << <<"what would you recommend">> >>],
          \* r'assess the (value|validity)'
          [anchored |-> FALSE, items |-> << <<"assess the ">>, <<"value", "validity">> >>],
          \* r'rate the importance of'
          [anchored |-> FALSE, items |-> << <<"rate the importance of">> >>],
          \* r'which option (is|would be) best'
          [anchored |-> FALSE, items |-> << <<"which option ">>, <<"is", "would be">>, <<" best">> >>],
          \* r'how would you improve (.*)'
          [anchored |-> FALSE, items |-> << <<"how would you improve ">>, <<".*">> >>],
          \* r'do the benefits outweigh the risks'
          [anchored |-> FALSE, items |-> << <<"do the benefits outweigh the risks">> >>]
      >>,
      verbs |-> {"evaluate", "judge", "critique", "justify", "defend", "assess", "recommend"},
      weight |-> 150,
      complexity_threshold |-> 80 ]

Creating_profile ==
    [ keywords |-> <<"create", "design", "develop", "generate", "produce", "hypothesize", "plan", "construct", "invent", "compose", "formulate", "propose", "what if">>,
      question_patterns |-> <<
          \* r'how would you design'
          [anchored |-> FALSE, items |-> << <<"how would you design">> >>],
          \* r'what would you create'
          [anchored |-> FALSE, items |-> << <<"what would you create">> >>],
          \* r'can you propose (an|a)'
          [anchored |-> FALSE, items |-> << <<"can you propose ">>, <<"an", "a">> >>],
          \* r'develop a (plan|model|solution)'
          [anchored |-> FALSE, items |-> << <<"develop a ">>, <<"plan", "model", "solution">> >>],
          \* r'create a (solution|product|story)'
          [anchored |-> FALSE, items |-> << <<"create a ">>, <<"solution", "product", "story">> >>],
          \* r'hypothesize what would happen if'
          [anchored |-> FALSE, items |-> << <<"hypothesize what would happen if">> >>],
          \* r'design (a|an)'
          [anchored |-> FALSE, items |-> << <<"design ">>, <<"a", "an">> >>],
          \* r'invent (a|an)'
          [anchored |-> FALSE, items |-> << <<"invent ">>, <<"a", "an">> >>],
          \* r'compose (a|an)'
          [anchored |-> FALSE, items |-> << <<"compose ">>, <<"a", "an">> >>],
          \* r'formulate a (theory|plan)'
          [anchored |-> FALSE, items |-> << <<"formulate a ">>, <<"theory", "plan">> >>],
          \* r'what if you could'
          [anchored |-> FALSE, items |-> << <<"what if you could">> >>],
          \* r'how would you modify (.*) to'
          [anchored |-> FALSE, items |-> << <<"how would you modify ">>, <<".*">>, <<" to">> >>],
          \* r'what new (method|model|idea) could'
          [anchored |-> FALSE, items |-> << <<"what new ">>, <<"method", "model", "idea">>, <<" could">> >>],
          \* r'develop an alternative to (.*)'
          [anchored |-> FALSE, items |-> << <<"develop an alternative to ">>, <<".*">> >>]
      >>,
      verbs |-> {"create", "design", "develop", "propose", "invent", "hypothesize", "construct"},
      weight |-> 160,
      complexity_threshold |-> 90 ]

(* dict iteration order of blooms_processes and of level_scores *)
Levels == <<"Remembering", "Understanding", "Applying", "Analyzing", "Evaluating", "Creating">>

LevelSet == {Levels[i] : i \in 1..Len(Levels)}

blooms_processes ==
    [ Remembering |-> Remembering_profile,
      Understanding |-> Understanding_profile,
      Applying |-> Applying_profile,
      Analyzing |-> Analyzing_profile,
      Evaluating |-> Evaluating_profile,
      Creating |-> Creating_profile ]

---------------------------------------------------------------------------
(* IEEE-754 doubles.  Every score and complexity value the classifier      *)
(* computes from its decimal constants lies within 2^-40 of a multiple of  *)
(* 0.01 and is a multiple of 2^-57, so such a double is <<h, e>>, standing *)
(* for (h + e * 2^-57) / 100: h the hundredths it is nearest to and e its  *)
(* distance from them.  An operation computes the exact result and rounds  *)
(* it to the nearest double, ties to even.                                 *)
Min(a, b) == IF a <= b THEN a ELSE b
Max(a, b) == IF a >= b THEN a ELSE b

(* 2^n modulo m, by repeated squaring *)
RECURSIVE PowMod(_, _)
PowMod(n, m) ==
    IF n = 0
    THEN 1 % m
    ELSE LET half == PowMod(n \div 2, m)
             square == (half * half) % m
         IN IF n % 2 = 0 THEN square ELSE (2 * square) % m

(* v >= 2^k for the positive value v = <<h, e>> *)
AtLeastPow(h, e, k) ==
    IF k >= 0
    THEN h > 100 * 2^k \/ (h = 100 * 2^k /\ e >= 0)
    ELSE h * 2^(-k) > 100 \/ (h * 2^(-k) = 100 /\ e >= 0)

(* the binary exponent of a positive value: the greatest k with v >= 2^k *)
Exponent(h, e) == CHOOSE k \in -8..8 : AtLeastPow(h, e, k) /\ ~AtLeastPow(h, e, k + 1)

(* The nearest double to the exact positive value <<h, e>>.  The doubles   *)
(* of exponent k are the multiples of 2^(k-52), that is of m = 2^(k+5)     *)
(* units of 2^-57; r is 100 times the remainder of the exact value modulo  *)
(* m, and odd tells whether the multiple below it is an odd one.           *)
RoundBy(h, e, m, r, odd) ==
    IF 2 * r < 100 * m \/ (2 * r = 100 * m /\ ~odd)
    THEN <<h, e - r>>
    ELSE <<h, e + (100 * m - r)>>

RoundUnit(h, e, k, m) ==
    RoundBy(h, e, m,
            (m * ((h * PowMod(52 - k, 100)) % 100) + e) % (100 * m),
            (m * ((h * PowMod(52 - k, 200)) % 200) + e) % (200 * m) >= 100 * m)

RoundAt(h, e, k) == IF k + 5 < 0 THEN <<h, e>> ELSE RoundUnit(h, e, k, 2^(k + 5))

RoundPositive(h, e) == IF h = 0 THEN <<h, e>> ELSE RoundAt(h, e, Exponent(h, e))

(* the value s * p for a sign s *)
Signed(s, p) == <<s * p[1], s * p[2]>>

RoundSigned(h, e, s) == Signed(s, RoundPositive(s * h, s * e))

RoundNearest(h, e) == RoundSigned(h, e, IF h < 0 \/ (h = 0 /\ e < 0) THEN -1 ELSE 1)

(* the double a decimal literal denotes, h its value in hundredths; also   *)
(* the double n / 10 for an int n, with h = 10 * n                         *)
Literal(h) == RoundNearest(h, 0)

Zero == <<0, 0>>

DAdd(x, y) == RoundNearest(x[1] + y[1], x[2] + y[2])
DSub(x, y) == RoundNearest(x[1] - y[1], x[2] - y[2])

(* x * c for c = p / 2, one of the literals 1.5, 2.0 and 1.0 *)
DTimesHalves(x, p) == RoundNearest((x[1] * p) \div 2, (x[2] * p) \div 2)

(* x / 2, exact *)
DHalf(x) == <<x[1] \div 2, x[2] \div 2>>

DLess(x, y) == x[1] < y[1] \/ (x[1] = y[1] /\ x[2] < y[2])
DMax(x, y) == IF DLess(x, y) THEN y ELSE x
DMin(x, y) == IF DLess(y, x) THEN y ELSE x

(* round(v, 2) in hundredths *)
Round2(v) == v[1]

(* round(v * 10) as f"{v:.1f}" does it for v >= 0: to the nearest tenth,   *)
(* and to the even one when v is exactly halfway                           *)
ScoreTenths(v) ==
    LET q == v[1] \div 10
        r == v[1] % 10
    IN IF r > 5 \/ (r = 5 /\ (v[2] > 0 \/ (v[2] = 0 /\ q % 2 = 1))) THEN q + 1 ELSE q

---------------------------------------------------------------------------
(* Confidence arithmetic.  A confidence is not near a multiple of 0.01; it *)
(* is a fixed-point number counting units of 10^-8, every multiplication   *)
(* and division rounded to the nearest unit.  It is within 10^-7 of the    *)
(* double the source computes.  round(confidence, 2) and the percentage of *)
(* the explanation are taken from the fixed-point value, a tie going to    *)
(* the even neighbour: where the exact confidence lies on a rounding       *)
(* boundary (0.5 * 1.05 = 0.525) the double of the source lies just off    *)
(* it and may round the other way (0.53), so the last digit reported here  *)
(* may differ by one in those cases.                                       *)
One == 10^8

(* the decimal literal n / d, d a divisor of One *)
Dec(n, d) == n * (One \div d)

(* <<floor(a * 10^digits / b), remainder>> for a >= 0, b > 0, by long      *)
(* division one decimal digit at a time                                     *)
RECURSIVE ScaleDigits(_, _, _)
ScaleDigits(a, b, digits) ==
    IF digits = 0
    THEN <<a \div b, a % b>>
    ELSE LET p == ScaleDigits(a, b, digits - 1)
         IN <<p[1] * 10 + ((p[2] * 10) \div b), (p[2] * 10) % b>>

(* x / y for doubles x >= 0 and y > 0; the quotient of the hundredths, or  *)
(* of the distances when both values are below every hundredth; y = 0      *)
(* has no quotient                                                         *)
Quotient(x, y) ==
    LET a == IF y[1] # 0 THEN x[1] ELSE x[2]
        b == IF y[1] # 0 THEN y[1] ELSE y[2]
        p == ScaleDigits(a, b, 8)
    IN IF 2 * p[2] >= b THEN p[1] + 1 ELSE p[1]

(* c * (n / d), for a confidence c and the decimal literal n / d in lowest *)
(* terms (1.05 is 21 / 20), rounded to the nearest unit; c is split at d   *)
(* to keep the products small                                              *)
Times(c, n, d) == (c \div d) * n + (((c % d) * n + (d \div 2)) \div d)

(* round(c * 10^k) for a confidence c, where One = 10^(k + drop); a tie    *)
(* goes to the even neighbour                                              *)
RoundTo(c, drop) ==
    LET q == c \div (10^drop)
        r == c % (10^drop)
    IN IF 2 * r > 10^drop \/ (2 * r = 10^drop /\ q % 2 = 1) THEN q + 1 ELSE q

---------------------------------------------------------------------------
(* "score += inc" executed n times *)
RECURSIVE AddTimes(_, _, _)
AddTimes(score, inc, n) == IF n = 0 THEN score ELSE AddTimes(DAdd(score, inc), inc, n - 1)

(* analyze_question_blooms_level, lines 444-448: 1.5 * weight is added for *)
(* every keyword found in question_clean between word boundaries           *)
KeywordScore(score, data, question_clean) ==
    LET hits == {i \in 1..Len(data.keywords) : SearchWord(data.keywords[i], question_clean)}
    IN AddTimes(score, DTimesHalves(Literal(data.weight), 3), Cardinality(hits))

(* lines 450-453: 2.0 * weight is added for every pattern found in         *)
(* question_lower                                                          *)
PatternScore(score, data, question_lower) ==
    LET hits == {i \in 1..Len(data.question_patterns) :
                     Search(data.question_patterns[i], question_lower)}
    IN AddTimes(score, DTimesHalves(Literal(data.weight), 4), Cardinality(hits))

(* the verb check that takes half the weight off where none of the first   *)
(* three words is a verb of the level                                       *)
VerbScoreSigned(score, data, question_clean) ==
    LET question_words == Split(question_clean)
    IN IF \E i \in 1..Min(3, Len(question_words)) : question_words[i] \in data.verbs
       THEN DAdd(score, DTimesHalves(Literal(data.weight), 2))
       ELSE DSub(score, DTimesHalves(Literal(data.weight), 1))

(* the verb check without the break: the weight is added for each of the   *)
(* first three words that is a verb of the level                            *)
VerbScoreEach(score, data, question_clean) ==
    LET question_words == Split(question_clean)
    IN AddTimes(score, DTimesHalves(Literal(data.weight), 2),
                Cardinality({i \in 1..Min(3, Len(question_words)) :
                                question_words[i] \in data.verbs}))

(* lines 455-461: 1.0 * weight is added once if one of the first three     *)
(* words of question_clean is a verb of the level                          *)
VerbScore(score, data, question_clean) ==
    LET question_words == Split(question_clean)
    IN IF \E i \in 1..Min(3, Len(question_words)) : question_words[i] \in data.verbs
       THEN DAdd(score, DTimesHalves(Literal(data.weight), 2))
       ELSE score

(* doc_references of _analyze_document_context *)
doc_references ==
    << \* r'according to (the|this) (text|document|passage|reading|author)'
       [anchored |-> FALSE, items |-> << <<"according to ">>, <<"the", "this">>, <<" ">>, <<"text", "document", "passage", "reading", "author">> >>],
       \* r'based on (the|this) (text|document|passage|reading)'
       [anchored |-> FALSE, items |-> << <<"based on ">>, <<"the", "this">>, <<" ">>, <<"text", "document", "passage", "reading">> >>],
       \* r'from the (text|document|passage|reading)'
       [anchored |-> FALSE, items |-> << <<"from the ">>, <<"text", "document", "passage", "reading">> >>],
       \* r'as described in'
       [anchored |-> FALSE, items |-> << <<"as described in">> >>],
       \* r'as stated in'
       [anchored |-> FALSE, items |-> << <<"as stated in">> >>],
       \* r'the (text|document|passage|reading) (says|states|describes|implies)'
       [anchored |-> FALSE, items |-> << <<"the ">>, <<"text", "document", "passage", "reading">>, <<" ">>, <<"says", "states", "describes", "implies">> >>],
       \* r'what evidence in the text'
       [anchored |-> FALSE, items |-> << <<"what evidence in the text">> >> ] >>

(* re.findall(r'\b([A-Z][a-z]+|[0-9]+)\b', s): \b on both sides makes a     *)
(* match a whole run of word characters, one capital followed by lowercase *)
(* letters only, or digits only                                            *)
IsContentTerm(w) ==
    \/ /\ Len(w) >= 2
       /\ CharAt(w, 1) \in UpperChars
       /\ \A i \in 2..Len(w) : CharAt(w, i) \in LowerChars
    \/ \A i \in 1..Len(w) : CharAt(w, i) \in DigitChars

ContentTerms(s) ==
    LET runs == Runs(s, IsWordChar)
    IN {runs[i] : i \in {j \in 1..Len(runs) : IsContentTerm(runs[j])}}

(* the citation phrasings searched for in the document instead of the     *)
(* question                                                                *)
analyze_document_cited(question_text, document_text, level) ==
    LET question_lower == Lower(question_text)
        reference ==
            IF \E i \in 1..Len(doc_references) : Search(doc_references[i], document_text)
            THEN (IF level \in {"Analyzing", "Evaluating"}
                  THEN DAdd(Zero, Literal(250))
                  ELSE DAdd(Zero, Literal(100)))
            ELSE Zero
    IN IF /\ level = "Creating"
          /\ document_text # ""
          /\ (Contains(question_lower, "create a new")
                \/ Contains(question_lower, "design an alternative"))
          /\ \E term \in ContentTerms(question_text) : Contains(document_text, Lower(term))
       THEN DAdd(reference, Literal(150))
       ELSE reference

(* the bonus for a term of the question found in the document given to    *)
(* every level, not to Creating alone                                       *)
analyze_document_terms(question_text, document_text, level) ==
    LET question_lower == Lower(question_text)
        reference ==
            IF \E i \in 1..Len(doc_references) : Search(doc_references[i], question_lower)
            THEN (IF level \in {"Analyzing", "Evaluating"}
                  THEN DAdd(Zero, Literal(250))
                  ELSE DAdd(Zero, Literal(100)))
            ELSE Zero
    IN IF /\ document_text # ""
          /\ (Contains(question_lower, "create a new")
                \/ Contains(question_lower, "design an alternative"))
          /\ \E term \in ContentTerms(question_text) : Contains(document_text, Lower(term))
       THEN DAdd(reference, Literal(150))
       ELSE reference

(* _analyze_document_context(question_text, document_text, level); the     *)
(* caller passes document_lower as document_text                           *)
analyze_document_context(question_text, document_text, level) ==
    LET question_lower == Lower(question_text)
        reference ==
            IF \E i \in 1..Len(doc_references) : Search(doc_references[i], question_lower)
            THEN (IF level \in {"Analyzing", "Evaluating"}
                  THEN DAdd(Zero, Literal(250))
                  ELSE DAdd(Zero, Literal(100)))
            ELSE Zero
    IN IF /\ level = "Creating"
          /\ document_text # ""
          /\ (Contains(question_lower, "create a new")
                \/ Contains(question_lower, "design an alternative"))
          /\ \E term \in ContentTerms(question_text) : Contains(document_text, Lower(term))
       THEN DAdd(reference, Literal(150))
       ELSE reference

(* the document step taken whether or not a document was passed *)
DocumentScoreAlways(score, document_text, question_text, document_lower, level) ==
    LET doc_score == analyze_document_context(question_text, document_lower, level)
    IN IF level \in {"Applying", "Analyzing", "Evaluating", "Creating"}
       THEN DAdd(score, DTimesHalves(doc_score, 3))
       ELSE DAdd(score, doc_score)

(* analyze_question_blooms_level, lines 463-469 *)
DocumentScore(score, document_text, question_text, document_lower, level) ==
    IF Truthy(document_text)
    THEN LET doc_score == analyze_document_context(question_text, document_lower, level)
         IN IF level \in {"Applying", "Analyzing", "Evaluating", "Creating"}
            THEN DAdd(score, DTimesHalves(doc_score, 3))
            ELSE DAdd(score, doc_score)
    ELSE score

(* "any(word in question_text.lower() for word in words)" *)
AnyIn(words, text) == \E w \in words : Contains(text, w)

(* structural_complexity of _analyze_question_complexity *)
StructuralComplexity(question_text) ==
    LET text == Lower(question_text)
        has_subordination ==
            AnyIn({"because", "although", "while", "if", "when", "unless", "since"}, text)
        has_coordination == AnyIn({"and", "but", "or", "however", "therefore", "thus"}, text)
        has_conditionals == AnyIn({"would", "could", "might", "should"}, text)
        s1 == IF has_subordination THEN Literal(40) ELSE Literal(10)
        s2 == DAdd(s1, IF has_coordination THEN Literal(20) ELSE Zero)
    IN DAdd(s2, IF has_conditionals THEN Literal(20) ELSE Zero)

(* sentence_complexity = min(word_count / 10, 1.0) *)
SentenceComplexity(question_text) ==
    DMin(Literal(10 * Len(Split(question_text))), Literal(100))

(* total_complexity = (sentence_complexity + structural_complexity) / 2 *)
TotalComplexity(question_text) ==
    DHalf(DAdd(SentenceComplexity(question_text), StructuralComplexity(question_text)))

(* the adjustment that only penalises: nothing is added where the          *)
(* complexity reaches the threshold                                         *)
ComplexityPenaltyOnly(total_complexity, threshold) ==
    IF ~DLess(total_complexity, Literal(threshold))
    THEN Zero
    ELSE IF DLess(total_complexity, DSub(Literal(threshold), Literal(20)))
         THEN Literal(-80)
         ELSE Zero

(* the adjustment that penalises a question too complex for the level: the *)
(* penalty falls where the complexity is above the threshold plus 0.2       *)
ComplexityPenaltyAbove(total_complexity, threshold) ==
    IF DLess(DAdd(Literal(threshold), Literal(20)), total_complexity)
    THEN Literal(-80)
    ELSE IF ~DLess(total_complexity, Literal(threshold))
         THEN Literal(80)
         ELSE Zero

(* the return value of _analyze_question_complexity for total_complexity   *)
(* against a threshold given in hundredths                                 *)
ComplexityAdjustment(total_complexity, threshold) ==
    IF ~DLess(total_complexity, Literal(threshold))
    THEN Literal(80)
    ELSE IF DLess(total_complexity, DSub(Literal(threshold), Literal(20)))
         THEN Literal(-80)
         ELSE Zero

(* _analyze_question_complexity(question_text, level, threshold) *)
analyze_question_complexity(question_text, level, threshold) ==
    ComplexityAdjustment(TotalComplexity(question_text), threshold)

(* lines 442-473: the score of a level when its five contributions have    *)
(* been added, before line 475 floors it                                    *)
RawScore(level, document_text, question_text, question_lower, document_lower, question_clean) ==
    LET data == blooms_processes[level]
        s1 == KeywordScore(Zero, data, question_clean)
        s2 == PatternScore(s1, data, question_lower)
        s3 == VerbScore(s2, data, question_clean)
        s4 == DocumentScore(s3, document_text, question_text, document_lower, level)
    IN DAdd(s4, analyze_question_complexity(question_text, level, data.complexity_threshold))

(* the loop body storing the sum as it is, without the floor of line 475   *)
LevelScoreUnfloored(level, document_text, question_text, question_lower, document_lower, question_clean) ==
    RawScore(level, document_text, question_text, question_lower, document_lower, question_clean)

(* analyze_question_blooms_level, lines 442-475: the body of the scoring    *)
(* loop for one level, the value stored in level_scores[level]              *)
LevelScore(level, document_text, question_text, question_lower, document_lower, question_clean) ==
    LET data == blooms_processes[level]
        s1 == KeywordScore(Zero, data, question_clean)
        s2 == PatternScore(s1, data, question_lower)
        s3 == VerbScore(s2, data, question_clean)
        s4 == DocumentScore(s3, document_text, question_text, document_lower, level)
        score == DAdd(s4, analyze_question_complexity(question_text, level,
                                                      data.complexity_threshold))
    IN DMax(score, Zero)

---------------------------------------------------------------------------
(* _handle_special_cases(question_text, level_scores): the dict after the   *)
(* three in-place adjustments                                               *)
(* the pattern of the first rule cut down to r'^what ' *)
what_pattern == [anchored |-> TRUE, items |-> << <<"what ">> >>]

what_did_pattern == [anchored |-> TRUE, items |-> << <<"what ">>, <<"did", "happened">> >>]

(* the first rule with the subtraction left unfloored *)
WhatDidCaseUnfloored(question_lower, scores) ==
    IF Search(what_did_pattern, question_lower)
    THEN [l \in DOMAIN scores |->
             IF l = "Remembering"
             THEN DAdd(scores[l], Literal(250))
             ELSE DSub(scores[l], Literal(150))]
    ELSE scores

WhatDidCase(question_lower, scores) ==
    IF Search(what_did_pattern, question_lower)
    THEN [l \in DOMAIN scores |->
             IF l = "Remembering"
             THEN DAdd(scores[l], Literal(250))
             ELSE DMax(DSub(scores[l], Literal(150)), Zero)]
    ELSE scores

(* the second rule with its three branches tried one after the other,     *)
(* each on its own                                                          *)
HowCaseEach(question_lower, scores) ==
    IF StartsWith(question_lower, "how ")
    THEN LET s1 == IF Contains(question_lower, "how to")
                   THEN [scores EXCEPT !["Applying"] = DAdd(@, Literal(150))]
                   ELSE scores
             s2 == IF Contains(question_lower, "how would") \/ Contains(question_lower, "how could")
                   THEN [s1 EXCEPT !["Applying"] = DAdd(@, Literal(100)),
                                   !["Creating"] = DAdd(@, Literal(100))]
                   ELSE s1
         IN IF Contains(question_lower, "how does") \/ Contains(question_lower, "how did")
            THEN [s2 EXCEPT !["Understanding"] = DAdd(@, Literal(100)),
                            !["Analyzing"] = DAdd(@, Literal(50))]
            ELSE s2
    ELSE scores

HowCase(question_lower, scores) ==
    IF StartsWith(question_lower, "how ")
    THEN IF Contains(question_lower, "how to")
         THEN [scores EXCEPT !["Applying"] = DAdd(@, Literal(150))]
         ELSE IF Contains(question_lower, "how would") \/ Contains(question_lower, "how could")
              THEN [scores EXCEPT !["Applying"] = DAdd(@, Literal(100)),
                                  !["Creating"] = DAdd(@, Literal(100))]
              ELSE IF Contains(question_lower, "how does") \/ Contains(question_lower, "how did")
                   THEN [scores EXCEPT !["Understanding"] = DAdd(@, Literal(100)),
                                       !["Analyzing"] = DAdd(@, Literal(50))]
                   ELSE scores
    ELSE scores

(* the third rule looking for "why " anywhere in the question *)
WhyCaseAnywhere(question_lower, scores) ==
    IF Contains(question_lower, "why ")
    THEN [scores EXCEPT !["Understanding"] = DAdd(@, Literal(100)),
                        !["Analyzing"] = DAdd(@, Literal(150))]
    ELSE scores

(* the third rule reaching one level further, with 0.5 for Evaluating *)
WhyCaseWide(question_lower, scores) ==
    IF StartsWith(question_lower, "why ")
    THEN [scores EXCEPT !["Understanding"] = DAdd(@, Literal(100)),
                        !["Analyzing"] = DAdd(@, Literal(150)),
                        !["Evaluating"] = DAdd(@, Literal(50))]
    ELSE scores

WhyCase(question_lower, scores) ==
    IF StartsWith(question_lower, "why ")
    THEN [scores EXCEPT !["Understanding"] = DAdd(@, Literal(100)),
                        !["Analyzing"] = DAdd(@, Literal(150))]
    ELSE scores

handle_special_cases(question_text, level_scores) ==
    LET question_lower == Lower(question_text)
    IN WhyCase(question_lower, HowCase(question_lower, WhatDidCase(question_lower, level_scores)))

---------------------------------------------------------------------------
(* the keys of level_scores in dict order *)
KeysInOrder(scores) == SelectSeq(Levels, LAMBDA l : l \in DOMAIN scores)

(* sum(level_scores.values()): the values added in dict order *)
RECURSIVE SumFrom(_, _, _)
SumFrom(scores, keys, i) ==
    IF i = 0 THEN Zero ELSE DAdd(SumFrom(scores, keys, i - 1), scores[keys[i]])

SumScores(scores) == SumFrom(scores, KeysInOrder(scores), Len(KeysInOrder(scores)))

(* max(level_scores.values()) *)
MaxScore(scores) == CHOOSE v \in {scores[l] : l \in DOMAIN scores} :
                        \A l \in DOMAIN scores : ~DLess(v, scores[l])

(* max(level_scores) with the key function left out: the greatest key in   *)
(* str order, whatever the values                                          *)
ArgMaxByName(scores) ==
    LET names == SelectSeq(<<"Analyzing", "Applying", "Creating", "Evaluating",
                             "Remembering", "Understanding">>,
                           LAMBDA l : l \in DOMAIN scores)
    IN names[Len(names)]

(* max(level_scores, key=level_scores.get): the first key in dict order     *)
(* that carries the greatest value                                          *)
ArgMax(scores) ==
    LET keys == KeysInOrder(scores)
        i == CHOOSE i \in 1..Len(keys) :
                 /\ scores[keys[i]] = MaxScore(scores)
                 /\ \A j \in 1..(i - 1) : scores[keys[j]] # MaxScore(scores)
    IN keys[i]

(* the runner-up taken among the values below the maximum: the greatest    *)
(* value that differs from it, or the maximum if there is none              *)
SecondScoreDistinct(scores) ==
    LET below == {scores[l] : l \in DOMAIN scores} \ {MaxScore(scores)}
    IN IF below = {} THEN MaxScore(scores)
       ELSE CHOOSE v \in below : \A w \in below : ~DLess(v, w)

(* sorted(level_scores.values(), reverse=True)[1]: the greatest value left  *)
(* when one occurrence of the maximum is taken out                          *)
SecondScore(scores) ==
    LET rest == DOMAIN scores \ {ArgMax(scores)}
    IN CHOOSE v \in {scores[l] : l \in rest} : \A l \in rest : ~DLess(v, scores[l])

(* lines 627-635: the share of the greatest score in the total, raised by  *)
(* 0.3 times the gap to the runner-up and capped at 0.95                    *)
Calibrate(level_scores, max_score, detected_level, total_score) ==
    LET confidence == Quotient(max_score, total_score)
    IN IF Cardinality(DOMAIN level_scores) > 1
       THEN LET score_gap == DSub(max_score, SecondScore(level_scores))
                gap_ratio == Quotient(score_gap, DMax(Literal(100), max_score))
            IN [exc |-> "", level |-> detected_level,
                confidence |-> Min(confidence + Times(gap_ratio, 3, 10), Dec(95, 100))]
       ELSE [exc |-> "", level |-> detected_level, confidence |-> confidence]

(* the calibrator with neither test of the total: max_score / total_score  *)
(* raises ZeroDivisionError on a total of 0.0                               *)
determine_level_unguarded(level_scores) ==
    IF SumScores(level_scores) = Zero
    THEN [exc |-> "float division by zero", level |-> "", confidence |-> 0]
    ELSE Calibrate(level_scores, MaxScore(level_scores), ArgMax(level_scores),
                   SumScores(level_scores))

(* the calibrator answering an empty or all-zero scoreboard with the        *)
(* confidence 0.1                                                           *)
determine_level_low_fallback(level_scores) ==
    IF DOMAIN level_scores = {} \/ SumScores(level_scores) = Zero
    THEN [exc |-> "", level |-> "Remembering", confidence |-> Dec(1, 10)]
    ELSE Calibrate(level_scores, MaxScore(level_scores), ArgMax(level_scores),
                   SumScores(level_scores))

(* _determine_level_with_confidence(level_scores); exc is str(e) of the     *)
(* exception raised, "" if none                                             *)
determine_level_with_confidence(level_scores) ==
    IF DOMAIN level_scores = {} \/ SumScores(level_scores) = Zero
    THEN [exc |-> "", level |-> "Remembering", confidence |-> Dec(5, 10)]
    ELSE LET max_score == MaxScore(level_scores)
             detected_level == ArgMax(level_scores)
             total_score == SumScores(level_scores)
         IN IF total_score = Zero
            THEN [exc |-> "", level |-> detected_level, confidence |-> Dec(5, 10)]
            ELSE Calibrate(level_scores, max_score, detected_level, total_score)

(* _validate_classification(confidence, question_text, detected_level,      *)
(* document_text)                                                           *)
(* the penalty for short questions passing over a question of no words *)
ValidateShortWords(confidence, word_count) ==
    IF 0 < word_count /\ word_count < 4 THEN Times(confidence, 7, 10) ELSE confidence

ValidateShort(confidence, word_count) ==
    IF word_count < 4 THEN Times(confidence, 7, 10) ELSE confidence

ValidateLong(confidence, word_count) ==
    IF word_count > 15 THEN Min(Times(confidence, 11, 10), Dec(95, 100)) ELSE confidence

ValidateMark(confidence, question_text) ==
    IF Contains(question_text, "?")
    THEN Min(Times(confidence, 21, 20), Dec(95, 100))
    ELSE confidence

ValidateLevel(confidence, word_count, detected_level) ==
    IF detected_level # "Remembering" /\ word_count > 8
    THEN Min(Times(confidence, 11, 10), Dec(95, 100))
    ELSE confidence

(* the last adjustment made for every document that is not empty *)
ValidateDocumentAny(confidence, document_text) ==
    IF Truthy(document_text)
    THEN Min(Times(confidence, 21, 20), Dec(95, 100))
    ELSE confidence

ValidateDocument(confidence, document_text) ==
    IF Truthy(document_text) /\ Len(document_text.val) > 100
    THEN Min(Times(confidence, 21, 20), Dec(95, 100))
    ELSE confidence

(* the five adjustments as bare products, with no cap and no final clamp *)
validate_unclamped(confidence, question_text, detected_level, document_text) ==
    LET word_count == Len(Split(question_text))
        c1 == IF word_count < 4 THEN Times(confidence, 7, 10) ELSE confidence
        c2 == IF word_count > 15 THEN Times(c1, 11, 10) ELSE c1
        c3 == IF Contains(question_text, "?") THEN Times(c2, 21, 20) ELSE c2
        c4 == IF detected_level # "Remembering" /\ word_count > 8
              THEN Times(c3, 11, 10) ELSE c3
    IN IF Truthy(document_text) /\ Len(document_text.val) > 100
       THEN Times(c4, 21, 20) ELSE c4

validate_classification(confidence, question_text, detected_level, document_text) ==
    LET word_count == Len(Split(question_text))
        c1 == ValidateShort(confidence, word_count)
        c2 == ValidateLong(c1, word_count)
        c3 == ValidateMark(c2, question_text)
        c4 == ValidateLevel(c3, word_count, detected_level)
        c5 == ValidateDocument(c4, document_text)
    IN Max(Dec(1, 10), Min(c5, Dec(95, 100)))

---------------------------------------------------------------------------
(* f"{v:.1f}" for v >= 0 given in tenths *)
FormatTenths(t) == ToString(t \div 10) \o "." \o ToString(t % 10)

(* sorted(scores.items(), key=lambda x: x[1], reverse=True)[1][0]: the      *)
(* sort is stable, so the runner-up is the first key in dict order with the *)
(* greatest value among the keys other than the first maximal one           *)
NextBest(scores) ==
    LET top == ArgMax(scores)
        keys == SelectSeq(KeysInOrder(scores), LAMBDA l : l # top)
        i == CHOOSE i \in 1..Len(keys) :
                 /\ scores[keys[i]] = SecondScore(scores)
                 /\ \A j \in 1..(i - 1) : scores[keys[j]] # SecondScore(scores)
    IN keys[i]

(* the note appended by _get_classification_reasoning, lines 727-734 *)
CloseDecision(scores) ==
    IF /\ Cardinality(DOMAIN scores) > 1
       /\ DLess(DSub(MaxScore(scores), SecondScore(scores)), Literal(100))
    THEN " This was a close decision with '" \o NextBest(scores) \o "'."
    ELSE ""

(* re.search(r'\b(w1|w2|...)\b', text) is not None *)
SearchAnyWord(words, text) == \E w \in words : SearchWord(w, text)

(* _get_classification_reasoning(question, detected_level, scores) *)
get_classification_reasoning(question, detected_level, scores) ==
    LET question_lower == Lower(question)
        clause ==
            CASE detected_level = "Remembering" ->
                   IF SearchAnyWord({"who", "what", "when", "where", "list", "name", "define"}, question_lower)
                   THEN "Question asks for direct recall of factual information."
                   ELSE "Question structure and keywords indicate a request for retrieval of known information."
              [] detected_level = "Understanding" ->
                   IF SearchAnyWord({"explain", "summarize", "in your own words", "main idea"}, question_lower)
                   THEN "Question requires explaining ideas or concepts, not just recalling them."
                   ELSE "Question asks for interpretation or demonstration of comprehension."
              [] detected_level = "Applying" ->
                   IF SearchAnyWord({"use", "apply", "solve", "demonstrate", "calculate"}, question_lower)
                   THEN "Question requires using knowledge or a procedure in a specific situation or problem."
                   ELSE "Question prompts the application of learned material in a new context."
              [] detected_level = "Analyzing" ->
                   IF SearchAnyWord({"difference", "analyze", "compare", "contrast", "relationship", "cause", "effect"}, question_lower)
                   THEN "Question requires breaking down information into parts and examining relationships."
                   ELSE "Question prompts deconstruction of concepts to find underlying structure or motives."
              [] detected_level = "Evaluating" ->
                   IF SearchAnyWord({"evaluate", "judge", "critique", "justify", "defend", "opinion"}, question_lower)
                   THEN "Question requires making a judgment based on criteria and standards."
                   ELSE "Question prompts justification of a decision or critical assessment of a value."
              [] detected_level = "Creating" ->
                   IF SearchAnyWord({"create", "design", "develop", "propose", "invent", "what if"}, question_lower)
                   THEN "Question requires synthesizing elements into a new, coherent whole or proposing original ideas."
                   ELSE "Question prompts the generation of new ideas, products, or ways of viewing things."
              [] OTHER -> ""
    IN "Reasoning: " \o clause \o CloseDecision(scores)

(* ", ".join([f"{l}:{s:.1f}" for l, s in scores.items()]) *)
RECURSIVE JoinScores(_, _, _)
JoinScores(scores, keys, i) ==
    IF i > Len(keys) THEN ""
    ELSE (IF i > 1 THEN ", " ELSE "")
         \o keys[i] \o ":" \o FormatTenths(ScoreTenths(scores[keys[i]]))
         \o JoinScores(scores, keys, i + 1)

(* _generate_detailed_explanation(question, detected_level, selected_level, *)
(* matches, scores, document_text, confidence); the verdict marks U+2713    *)
(* and U+2717 are written [v] and [x]                                       *)
generate_detailed_explanation(question, detected_level, selected_level, matches, scores, document_text, confidence) ==
    LET base ==
            IF matches
            THEN "[v] CORRECT. The question is classified as '" \o detected_level \o "'."
            ELSE "[x] INCORRECT. The question is classified as '" \o detected_level
                     \o "', not '" \o selected_level \o "'."
        conf_text == " Confidence: " \o FormatTenths(RoundTo(confidence, 5)) \o "%."
        score_text == " Score breakdown: " \o JoinScores(scores, KeysInOrder(scores), 1) \o "."
        word_count == Len(Split(question))
        quality == IF word_count > 6 /\ Contains(question, "?")
                   THEN "Well-structured"
                   ELSE "Needs more specificity"
        quality_text == " Question quality: " \o quality \o " (" \o ToString(word_count) \o " words)."
        doc_text == IF Truthy(document_text) /\ Len(document_text.val) > 0
                    THEN " Document context was utilized."
                    ELSE " No document provided for context."
        reasoning == get_classification_reasoning(question, detected_level, scores)
    IN base \o conf_text \o score_text \o quality_text \o doc_text \o " " \o reasoning

---------------------------------------------------------------------------
(* The callers.  A thread calls analyze_question_blooms_level and steps    *)
(* through it; the arguments and locals of its call are its own.           *)
Threads == {1, 2}

VARIABLES
    frame,      \* each thread's call: where it is (pc), its arguments, its
                \* locals and str(e) of the exception being handled (exc)
    result,     \* the dict each thread's last call returned
    probe,      \* the arguments whose first result is kept
    first       \* the first dict returned for probe

vars == <<frame, result, probe, first>>

(* no dict returned yet *)
NoResult ==
    [matches_level |-> FALSE, confidence |-> -1, actual_level |-> "",
     explanation |-> "", scores |-> <<>>]

NoArgs == [document_text |-> PyNone, question_text |-> PyNone, selected_blooms_level |-> ""]

(* a thread that has made no call *)
NoFrame ==
    [pc |-> "idle", document_text |-> PyNone, question_text |-> PyNone,
     selected_blooms_level |-> "", question_lower |-> "", document_lower |-> "",
     question_clean |-> "", level_scores |-> <<>>, detected_level |-> "",
     confidence |-> 0, exc |-> ""]

ArgsOf(p) ==
    [document_text |-> frame[p].document_text, question_text |-> frame[p].question_text,
     selected_blooms_level |-> frame[p].selected_blooms_level]

(* str(e) of the AttributeError raised by x.lower() when x is not a str *)
NoLower(x) == "'" \o x.type \o "' object has no attribute 'lower'"

(* lines 432-433: the exception raised while the inputs are lowered, "" if  *)
(* none; question_text is lowered first, document_text only if truthy       *)
LowerFault(d, q) ==
    IF q.type # "str" THEN NoLower(q)
    ELSE IF Truthy(d) /\ d.type # "str" THEN NoLower(d)
         ELSE ""

(* lines 286-440: the frame of a call that has normalised its inputs and    *)
(* starts with an empty level_scores, or has raised on the way              *)
Entered(a) ==
    LET fault == LowerFault(a.document_text, a.question_text)
        lower == IF fault = "" THEN Strip(Lower(a.question_text.val)) ELSE ""
    IN [pc |-> IF fault = "" THEN "score" ELSE "except",
        document_text |-> a.document_text,
        question_text |-> a.question_text,
        selected_blooms_level |-> a.selected_blooms_level,
        question_lower |-> lower,
        document_lower |-> IF fault = "" /\ Truthy(a.document_text)
                           THEN Lower(a.document_text.val) ELSE "",
        question_clean |-> Strip(SubSpaces(SubPunct(lower))),
        level_scores |-> <<>>,
        detected_level |-> "",
        confidence |-> 0,
        exc |-> fault]

Enter(p, a) ==
    /\ frame' = [frame EXCEPT ![p] = Entered(a)]
    /\ result' = [result EXCEPT ![p] = NoResult]
    /\ UNCHANGED <<probe, first>>

(* a thread's first call, and a call after an earlier one has returned *)
Call(p, a) == frame[p].pc = "idle" /\ Enter(p, a)

(* a later call that takes the scoreboard its caller's last call left      *)
(* behind instead of scoring the new question                               *)
CallAgainWarm(p, a) ==
    /\ frame[p].pc = "done"
    /\ IF frame[p].level_scores = <<>> \/ Entered(a).pc = "except"
       THEN Enter(p, a)
       ELSE /\ frame' = [frame EXCEPT ![p] =
                   [Entered(a) EXCEPT !.level_scores = frame[p].level_scores,
                                      !.pc = "special"]]
            /\ result' = [result EXCEPT ![p] = NoResult]
            /\ UNCHANGED <<probe, first>>

CallAgain(p, a) == frame[p].pc = "done" /\ Enter(p, a)

(* the level the scoring loop is at: the first one not yet in level_scores  *)
NextLevel(scores) == Levels[Cardinality(DOMAIN scores) + 1]

(* lines 441-475: one iteration of the scoring loop *)
ScoreLevel(p) ==
    /\ frame[p].pc = "score"
    /\ LET f == frame[p]
           level == NextLevel(f.level_scores)
           score == LevelScore(level, f.document_text, f.question_text.val,
                               f.question_lower, f.document_lower, f.question_clean)
       IN frame' = [frame EXCEPT ![p] =
              [f EXCEPT !.level_scores = @ @@ (level :> score),
                        !.pc = IF level = Levels[Len(Levels)] THEN "special" ELSE "score"]]
    /\ UNCHANGED <<result, probe, first>>

(* the in-place adjustments made to one scoreboard that every call in      *)
(* flight shares                                                            *)
SpecialCasesShared(p) ==
    /\ frame[p].pc = "special"
    /\ frame' =
           [q \in Threads |->
               [frame[q] EXCEPT
                   !.level_scores =
                       IF DOMAIN @ = LevelSet
                       THEN handle_special_cases(frame[p].question_text.val, @)
                       ELSE @,
                   !.pc = IF q = p THEN "decide" ELSE @]]
    /\ UNCHANGED <<result, probe, first>>

(* line 478 *)
SpecialCases(p) ==
    /\ frame[p].pc = "special"
    /\ frame' = [frame EXCEPT ![p] =
           [@ EXCEPT !.level_scores =
                         handle_special_cases(frame[p].question_text.val, @),
                     !.pc = "decide"]]
    /\ UNCHANGED <<result, probe, first>>

(* line 481 *)
Decide(p) ==
    /\ frame[p].pc = "decide"
    /\ LET r == determine_level_with_confidence(frame[p].level_scores)
       IN frame' = [frame EXCEPT ![p] =
              IF r.exc # ""
              THEN [@ EXCEPT !.exc = r.exc, !.pc = "except"]
              ELSE [@ EXCEPT !.detected_level = r.level,
                             !.confidence = r.confidence,
                             !.pc = "validate"]]
    /\ UNCHANGED <<result, probe, first>>

(* line 484 *)
Validate(p) ==
    /\ frame[p].pc = "validate"
    /\ LET f == frame[p]
       IN frame' = [frame EXCEPT ![p] =
              [f EXCEPT !.confidence =
                            validate_classification(@, f.question_text.val,
                                                    f.detected_level, f.document_text),
                        !.pc = "respond"]]
    /\ UNCHANGED <<result, probe, first>>

(* the ghost record of the first dict returned for the probed arguments *)
Keep(p, r) == IF ArgsOf(p) = probe /\ first = NoResult THEN r ELSE first

(* the dict returned with the levels that scored nothing left out *)
ResponseSparse(question, detected, selected, scores, document, conf) ==
    LET matches == detected = selected
        kept == {k \in DOMAIN scores : scores[k] # Zero}
    IN [matches_level |-> matches,
        confidence |-> RoundTo(conf, 6),
        actual_level |-> detected,
        explanation |-> generate_detailed_explanation(question, detected, selected,
                                                      matches, scores, document, conf),
        scores |-> [k \in kept |-> Round2(scores[k])]]

(* the dict returned when any target that names a scored level counts as   *)
(* a match                                                                  *)
ResponseAnyLevel(question, detected, selected, scores, document, conf) ==
    LET matches == selected \in DOMAIN scores
    IN [matches_level |-> matches,
        confidence |-> RoundTo(conf, 6),
        actual_level |-> detected,
        explanation |-> generate_detailed_explanation(question, detected, selected,
                                                      matches, scores, document, conf),
        scores |-> [k \in DOMAIN scores |-> Round2(scores[k])]]

(* lines 495-501: the dict returned by a call that did not fail *)
Response(question, detected, selected, scores, document, conf) ==
    LET matches == detected = selected
    IN [matches_level |-> matches,
        confidence |-> RoundTo(conf, 6),
        actual_level |-> detected,
        explanation |-> generate_detailed_explanation(question, detected, selected,
                                                      matches, scores, document, conf),
        scores |-> [k \in DOMAIN scores |-> Round2(scores[k])]]

(* lines 486-501 *)
Respond(p) ==
    /\ frame[p].pc = "respond"
    /\ LET f == frame[p]
           r == Response(f.question_text.val, f.detected_level, f.selected_blooms_level,
                         f.level_scores, f.document_text, f.confidence)
       IN /\ result' = [result EXCEPT ![p] = r]
          /\ first' = Keep(p, r)
    /\ frame' = [frame EXCEPT ![p].pc = "done"]
    /\ UNCHANGED probe

(* the except clause reporting the failure without str(e) *)
ErrorResponseBare(message) ==
    [matches_level |-> FALSE,
     confidence |-> 0,
     actual_level |-> "Error",
     explanation |-> "Analysis failed",
     scores |-> <<>>]

(* the except clause returning the fallback level of the calibrator *)
ErrorResponseFallback(message) ==
    [matches_level |-> FALSE,
     confidence |-> 0,
     actual_level |-> "Remembering",
     explanation |-> "Analysis failed: " \o message,
     scores |-> <<>>]

(* lines 505-511: the dict returned by the except clause *)
ErrorResponse(message) ==
    [matches_level |-> FALSE,
     confidence |-> 0,
     actual_level |-> "Error",
     explanation |-> "Analysis failed: " \o message,
     scores |-> <<>>]

(* lines 503-511 *)
Except(p) ==
    /\ frame[p].pc = "except"
    /\ result' = [result EXCEPT ![p] = ErrorResponse(frame[p].exc)]
    /\ first' = Keep(p, ErrorResponse(frame[p].exc))
    /\ frame' = [frame EXCEPT ![p].pc = "done"]
    /\ UNCHANGED probe

---------------------------------------------------------------------------
(* The inputs the callers draw from.  A question is a stem followed by up  *)
(* to MaxPad filler words, which match no keyword, pattern or verb.        *)
MaxPad == 3

Stems ==
    { "",
      "item",
      "What?",
      "What is the capital of France?",
      "Explain why photosynthesis is important.",
      "Calculate the area of a circle with radius 5.",
      "Compare and contrast mitosis and meiosis.",
      "Do you agree that the policy was effective? Justify your answer.",
      "Design a new method to reduce plastic waste.",
      "what did the king do",
      "What happened to the plan you use",
      "what did you think would happen if it rained",
      "how to solve for x",
      "how would you design it",
      "how does it work",
      "how to cook, how would you",
      "how is it",
      "How does it work and why does it fail",
      "How would you classify this plan?",
      "why is the sky blue",
      " why is the sky blue",
      "why ",
      "According to the text, why did Rome fall?",
      "Evaluate the claim based on the passage",
      "Create a new plan for Paris",
      "According to the text and based on the passage, who was it",
      "Explain how and why it would work",
      "Explain the main idea of this text",
      "Create a new plan for Rome based on the text",
      "explain describe it",
      "please kindly now explain",
      "Compare the two cities",
      "Design and explain",
      "Summarize the text",
      "Restate the theme",
      "Analyze how the author uses evidence in the text to support the main idea of the passage today" }

RECURSIVE Padded(_, _)
Padded(stem, n) == IF n = 0 THEN stem ELSE Padded(stem, n - 1) \o " item"

Questions == {PyNone} \cup {PyStr(Padded(stem, n)) : stem \in Stems, n \in 0..MaxPad}

DocPlain == "paris is the capital of france"
DocCited == "according to the text " \o DocPlain
DocLong ==
    "Rome was founded on the Tiber and grew from a small town into an empire that ruled the lands around the Mediterranean sea."

Documents == {PyNone, PyStr(""), PyStr(DocPlain), PyStr(DocCited), PyStr(DocLong), PyInt("5")}

Targets == {"Remembering", "Analyzing", "Expert"}

Inputs ==
    [document_text : Documents, question_text : Questions, selected_blooms_level : Targets]

(* the inputs of the two concurrent callers: one question with a document  *)
(* that cites the text and with one that does not, a question that cites   *)
(* the text itself, and a call that fails                                  *)
PairQuestion == PyStr("why is the sky blue")

PairInputs ==
    { [document_text |-> PyStr(DocPlain), question_text |-> PairQuestion,
       selected_blooms_level |-> "Analyzing"],
      [document_text |-> PyStr(DocCited), question_text |-> PairQuestion,
       selected_blooms_level |-> "Analyzing"],
      [document_text |-> PyNone,
       question_text |-> PyStr("According to the text, why did Rome fall?"),
       selected_blooms_level |-> "Analyzing"],
      [document_text |-> PyNone, question_text |-> PyNone,
       selected_blooms_level |-> "Analyzing"] }

---------------------------------------------------------------------------
Idle ==
    /\ frame = [p \in Threads |-> NoFrame]
    /\ result = [p \in Threads |-> NoResult]
    /\ first = NoResult

Step(p) ==
    \/ ScoreLevel(p)
    \/ SpecialCases(p)
    \/ Decide(p)
    \/ Validate(p)
    \/ Respond(p)
    \/ Except(p)

(* one caller making one call with any input *)
Init == Idle /\ probe = NoArgs

Next == (\E a \in Inputs : Call(1, a)) \/ Step(1)

Spec == Init /\ [][Next]_vars

(* two callers running concurrently, each calling again and again *)
InitPair == Idle /\ probe \in PairInputs

NextPair ==
    \E p \in Threads :
        \/ \E a \in PairInputs : Call(p, a)
        \/ \E a \in PairInputs : CallAgain(p, a)
        \/ Step(p)

SpecPair == InitPair /\ [][NextPair]_vars

(* two callers classifying one question, each with a document of its own   *)
DocQuestions ==
    { PyStr("Create a new plan for Paris"),
      PyStr("Create a new plan for Rome based on the text"),
      PyStr("According to the text, why did Rome fall?"),
      PairQuestion }

DocInputs ==
    [document_text : Documents \ {PyNone}, question_text : DocQuestions,
     selected_blooms_level : {"Creating"}]

(* the question of the callers that have called is the question of a *)
SameQuestion(a) ==
    \A p \in Threads : frame[p].pc # "idle" => frame[p].question_text = a.question_text

(* a first call with the question the other caller, if it has called, asked *)
CallSame(p, a) == SameQuestion(a) /\ Call(p, a)

NextDocs ==
    \E p \in Threads :
        \/ \E a \in DocInputs : CallSame(p, a)
        \/ Step(p)

SpecDocs == Init /\ [][NextDocs]_vars

---------------------------------------------------------------------------
(* What a call returns when no other call runs: the steps of                *)
(* analyze_question_blooms_level composed in program order.                 *)
AloneBoard(a) ==
    LET question == a.question_text.val
        lower == Strip(Lower(question))
        document == IF Truthy(a.document_text) THEN Lower(a.document_text.val) ELSE ""
        clean == Strip(SubSpaces(SubPunct(lower)))
    IN handle_special_cases(question,
           [level \in LevelSet |->
               LevelScore(level, a.document_text, question, lower, document, clean)])

Alone(a) ==
    IF LowerFault(a.document_text, a.question_text) # ""
    THEN ErrorResponse(LowerFault(a.document_text, a.question_text))
    ELSE LET scores == AloneBoard(a)
             decided == determine_level_with_confidence(scores)
             conf == validate_classification(decided.confidence, a.question_text.val,
                                             decided.level, a.document_text)
         IN Response(a.question_text.val, decided.level, a.selected_blooms_level,
                     scores, a.document_text, conf)

(* every input of the two callers paired with the scoreboard, and with the *)
(* dict, of a call that runs alone with it                                 *)
AloneBoards ==
    {<<a, AloneBoard(a)>> : a \in {b \in PairInputs : b.question_text.type = "str"}}

AloneResults == {<<a, Alone(a)>> : a \in PairInputs}

(* the calls that have returned, and those among them that raised *)
Returned(p) == frame[p].pc = "done"

Failed(p) == Returned(p) /\ frame[p].exc # ""

---------------------------------------------------------------------------
(* C1: the confidence a call returns is 0.0, and then only with             *)
(* actual_level "Error", or lies between 0.1 and 0.95 (the returned         *)
(* confidence is held in hundredths).                                       *)
C1_ConfidenceRange ==
    \A p \in Threads :
        Returned(p) =>
            \/ result[p].confidence = 0 /\ result[p].actual_level = "Error"
            \/ result[p].confidence \in 10..95

(* a call returned 0.95 where the uncapped adjustments exceed it *)
C1_Witness ==
    /\ Returned(1)
    /\ result[1].confidence = 95
    /\ Contains(frame[1].question_text.val, "?")
    /\ validate_unclamped(determine_level_with_confidence(frame[1].level_scores).confidence,
                          frame[1].question_text.val, frame[1].detected_level, frame[1].document_text)
           > Dec(95, 100)

(* C2: every entry of the scoreboard is >= 0 at every step, and so is      *)
(* every entry of the scores a call returns, also after the first special  *)
(* case took 1.5 off the five levels above Remembering.                    *)
C2_ScoresNonNegative ==
    \A p \in Threads :
        /\ \A l \in DOMAIN frame[p].level_scores : ~DLess(frame[p].level_scores[l], Zero)
        /\ \A l \in DOMAIN result[p].scores : result[p].scores[l] >= 0

(* the first special case has run on a question it applies to and left a   *)
(* level at 0 that the subtraction alone would have made negative          *)
C2_Witness ==
    /\ Returned(1)
    /\ ~Failed(1)
    /\ Search(what_did_pattern, Lower(frame[1].question_text.val))
    /\ DLess(Zero, frame[1].level_scores["Remembering"])
    /\ \E l \in LevelSet \ {"Remembering"} : frame[1].level_scores[l] = Zero

(* C3 as stated: every dict returned carries exactly six scores. *)
C3_Original ==
    \A p \in Threads : Returned(p) => Cardinality(DOMAIN result[p].scores) = 6

(* C3: a call that did not fail returns exactly six scores, one for each   *)
(* level; a call that failed returns none.                                 *)
C3_SixScores ==
    \A p \in Threads :
        Returned(p) =>
            IF Failed(p)
            THEN DOMAIN result[p].scores = {}
            ELSE /\ DOMAIN result[p].scores = LevelSet
                 /\ Cardinality(DOMAIN result[p].scores) = 6

(* a call returned six scores of which some are 0 *)
C3_Witness ==
    /\ Returned(1)
    /\ ~Failed(1)
    /\ Cardinality(DOMAIN result[1].scores) = 6
    /\ \E l \in LevelSet : result[1].scores[l] = 0
    /\ \E l \in LevelSet : result[1].scores[l] > 0

(* C4: a call in which an exception was raised returns the dict of the      *)
(* except clause: matches_level False, confidence 0.0, actual_level        *)
(* "Error", explanation "Analysis failed: " followed by str(e), and no     *)
(* scores; no other call returns actual_level "Error".                     *)
C4_FailureResult ==
    \A p \in Threads :
        Returned(p) =>
            /\ frame[p].exc # "" =>
                   /\ result[p].matches_level = FALSE
                   /\ result[p].confidence = 0
                   /\ result[p].actual_level = "Error"
                   /\ result[p].explanation = "Analysis failed: " \o frame[p].exc
                   /\ result[p].scores = <<>>
            /\ result[p].actual_level = "Error" => frame[p].exc # ""

(* a call given a document that is no str returned the failure dict *)
C4_Witness ==
    /\ Returned(1)
    /\ frame[1].document_text.type = "int"
    /\ frame[1].question_text.type = "str"
    /\ frame[1].exc = "'int' object has no attribute 'lower'"
    /\ result[1].explanation = "Analysis failed: 'int' object has no attribute 'lower'"

(* C5: a call that did not fail returns one of the six levels as           *)
(* actual_level; actual_level is "Error" exactly when the call failed, and *)
(* then confidence is 0.0 and matches_level is False.                      *)
C5_ActualLevel ==
    \A p \in Threads :
        Returned(p) =>
            /\ ~Failed(p) => result[p].actual_level \in LevelSet
            /\ Failed(p) <=> result[p].actual_level = "Error"
            /\ result[p].actual_level = "Error" =>
                   result[p].confidence = 0 /\ result[p].matches_level = FALSE

(* a call given None as the question returned "Error" although a level     *)
(* was asked for                                                           *)
C5_Witness ==
    /\ Returned(1)
    /\ frame[1].question_text = PyNone
    /\ frame[1].selected_blooms_level \in LevelSet
    /\ result[1].actual_level = "Error"
    /\ result[1].matches_level = FALSE

(* C6 as stated: the empty question without a document returns            *)
(* Remembering, confidence 0.5 and six scores of 0.                        *)
C6_Original ==
    \A p \in Threads :
        (Returned(p) /\ frame[p].question_text = PyStr("") /\ frame[p].document_text = PyNone) =>
            /\ result[p].actual_level = "Remembering"
            /\ result[p].confidence = 50
            /\ result[p].scores = [l \in LevelSet |-> 0]

(* C6: the empty question without a document returns Remembering, six      *)
(* scores of 0 and confidence 0.35: the 0.5 of the calibrator's fallback,  *)
(* times the 0.7 the validator applies below four words.                   *)
C6_EmptyQuestion ==
    \A p \in Threads :
        (Returned(p) /\ frame[p].question_text = PyStr("") /\ frame[p].document_text = PyNone) =>
            /\ result[p].actual_level = "Remembering"
            /\ result[p].confidence = 35
            /\ result[p].scores = [l \in LevelSet |-> 0]

(* the empty question without a document has been classified *)
C6_Witness ==
    /\ Returned(1)
    /\ frame[1].question_text = PyStr("")
    /\ frame[1].document_text = PyNone
    /\ result[1].confidence = 35

(* C7: a call whose question is a str and whose document is None or a str  *)
(* raises nothing and returns one of the six levels, never "Error"; a      *)
(* scoreboard of zeros is resolved to Remembering by the calibrator.       *)
C7_NoFailure ==
    \A p \in Threads :
        (/\ frame[p].question_text.type = "str"
         /\ frame[p].document_text.type \in {"str", "NoneType"}
         /\ frame[p].pc # "idle") =>
            /\ frame[p].pc # "except"
            /\ frame[p].exc = ""
            /\ Returned(p) =>
                   /\ result[p].actual_level \in LevelSet
                   /\ (\A l \in LevelSet : frame[p].level_scores[l] = Zero) =>
                          result[p].actual_level = "Remembering"

(* a question that scores nothing at any level, asked of a document, was   *)
(* resolved to Remembering                                                 *)
C7_Witness ==
    /\ Returned(1)
    /\ frame[1].question_text.type = "str"
    /\ Len(Split(frame[1].question_text.val)) >= 1
    /\ frame[1].document_text = PyStr(DocPlain)
    /\ DOMAIN frame[1].level_scores = LevelSet
    /\ \A l \in LevelSet : frame[1].level_scores[l] = Zero
    /\ result[1].actual_level = "Remembering"

C9_Deterministic ==
    \A p \in Threads :
        (Returned(p) /\ ArgsOf(p) = probe) => result[p] = first

(* both callers have returned from a call with the probed arguments, one   *)
(* of them after the other's result was recorded                           *)
C9_Witness ==
    /\ Returned(1) /\ Returned(2)
    /\ ArgsOf(1) = probe
    /\ ArgsOf(2) = probe
    /\ first # NoResult
    /\ first.actual_level \in LevelSet
    /\ result[1] = first
    /\ result[2] = first

(* C10: whatever the interleaving of two callers, the scoreboard a call    *)
(* decides on is the one it would build alone, and the dict it returns is  *)
(* the one it would return alone.                                          *)
C10_Interleaving ==
    \A p \in Threads :
        /\ (frame[p].pc \in {"decide", "validate", "respond"}) =>
               <<ArgsOf(p), frame[p].level_scores>> \in AloneBoards
        /\ Returned(p) => <<ArgsOf(p), result[p]>> \in AloneResults

(* one caller has returned from a call whose special cases changed its     *)
(* scoreboard while the other caller was between scoring and deciding      *)
C10_Witness ==
    /\ Returned(1)
    /\ frame[1].question_text = PairQuestion
    /\ <<ArgsOf(1), result[1]>> \in AloneResults
    /\ frame[1].level_scores # [l \in LevelSet |-> Zero]
    /\ frame[2].pc = "special"
    /\ frame[2].question_text # PairQuestion

---------------------------------------------------------------------------
(* the six exemplar questions of the level table and the level each is      *)
(* written for                                                              *)
Exemplars ==
    { <<"What is the capital of France?", "Remembering">>,
      <<"Explain why photosynthesis is important.", "Understanding">>,
      <<"Calculate the area of a circle with radius 5.", "Applying">>,
      <<"Compare and contrast mitosis and meiosis.", "Analyzing">>,
      <<"Do you agree that the policy was effective? Justify your answer.", "Evaluating">>,
      <<"Design a new method to reduce plastic waste.", "Creating">> }

(* the call of thread p has returned for exemplar e with no document *)
ReturnedExemplar(p, e) ==
    /\ Returned(p)
    /\ frame[p].question_text = PyStr(e[1])
    /\ ~Truthy(frame[p].document_text)

(* C11: each of the six exemplar questions, classified with no document     *)
(* (None or ""), returns its own level as actual_level with a confidence of *)
(* at least 0.5.                                                            *)
C11_Exemplars ==
    \A p \in Threads : \A e \in Exemplars :
        ReturnedExemplar(p, e) =>
            /\ result[p].actual_level = e[2]
            /\ result[p].confidence >= 50

(* the exemplar of the last level has been classified, against a target    *)
(* that is another level                                                    *)
C11_Witness ==
    /\ ReturnedExemplar(1, <<"Design a new method to reduce plastic waste.", "Creating">>)
    /\ frame[1].document_text = PyNone
    /\ result[1].actual_level = "Creating"
    /\ ~result[1].matches_level

---------------------------------------------------------------------------
(* the verdict lines of _generate_detailed_explanation, lines 666-669 *)
VerdictCorrect(detected) ==
    "[v] CORRECT. The question is classified as '" \o detected \o "'."

VerdictIncorrect(detected, selected) ==
    "[x] INCORRECT. The question is classified as '" \o detected
        \o "', not '" \o selected \o "'."

(* C12: in the dict of a call that did not fail, matches_level is true     *)
(* exactly when actual_level equals the target the caller passed; the       *)
(* explanation then opens with the CORRECT verdict naming the level, and    *)
(* otherwise with the INCORRECT verdict naming the detected and the target  *)
(* level; a target that is none of the six levels gives matches_level       *)
(* false.                                                                   *)
C12_Verdict ==
    \A p \in Threads :
        (Returned(p) /\ ~Failed(p)) =>
            LET r == result[p]
                target == frame[p].selected_blooms_level
            IN /\ r.matches_level = (r.actual_level = target)
               /\ (target \notin LevelSet => ~r.matches_level)
               /\ StartsWith(r.explanation, "[v] CORRECT.") = r.matches_level
               /\ StartsWith(r.explanation, "[x] INCORRECT.") = ~r.matches_level
               /\ StartsWith(r.explanation,
                             IF r.matches_level
                             THEN VerdictCorrect(r.actual_level)
                             ELSE VerdictIncorrect(r.actual_level, target))

(* a call whose target is the level detected has returned the CORRECT      *)
(* verdict                                                                  *)
C12_Witness ==
    /\ Returned(1)
    /\ ~Failed(1)
    /\ frame[1].selected_blooms_level = "Analyzing"
    /\ result[1].actual_level = "Analyzing"
    /\ result[1].matches_level
    /\ StartsWith(result[1].explanation, VerdictCorrect("Analyzing"))

---------------------------------------------------------------------------
(* the place of a level in the order Remembering .. Creating *)
Rank(level) == CHOOSE i \in 1..Len(Levels) : Levels[i] = level

(* C13: in the dict of a call that did not fail, no level has a score       *)
(* greater than scores[actual_level] and no level before actual_level in    *)
(* the order Remembering .. Creating has a score equal to it.               *)
C13_FirstMaximal ==
    \A p \in Threads :
        (Returned(p) /\ ~Failed(p)) =>
            LET r == result[p]
            IN \A l \in LevelSet :
                   /\ r.scores[l] <= r.scores[r.actual_level]
                   /\ Rank(l) < Rank(r.actual_level) => r.scores[l] # r.scores[r.actual_level]

---------------------------------------------------------------------------
(* the call of thread p has left the calibrator, line 481, and not yet the *)
(* validator                                                                *)
Calibrated(p) == frame[p].pc = "validate"

(* the second value of a scoreboard in descending order: the greatest      *)
(* score again if two levels carry it, else the greatest of the others      *)
RunnerUp(scores) ==
    LET top == MaxScore(scores)
        below == {scores[l] : l \in DOMAIN scores} \ {top}
    IN IF Cardinality({l \in DOMAIN scores : scores[l] = top}) > 1 \/ below = {}
       THEN top
       ELSE CHOOSE v \in below : \A w \in below : ~DLess(v, w)

(* C14: the calibrator returns Remembering with confidence 0.5 when the six *)
(* scores sum to 0, and otherwise the confidence                            *)
(* min(top / total + ((top - second) / max(1, top)) * 0.3, 0.95), top and   *)
(* second being the two greatest of the six scores (equal on a tie) and     *)
(* total their sum.                                                         *)
C14_Calibration ==
    \A p \in Threads :
        Calibrated(p) =>
            LET scores == frame[p].level_scores
                top == MaxScore(scores)
                second == RunnerUp(scores)
                total == SumScores(scores)
            IN IF total = Zero
               THEN frame[p].detected_level = "Remembering" /\ frame[p].confidence = Dec(5, 10)
               ELSE frame[p].confidence =
                        Min(Quotient(top, total)
                                + Times(Quotient(DSub(top, second), DMax(Literal(100), top)), 3, 10),
                            Dec(95, 100))

(* the calibrator has returned an uncapped confidence for a scoreboard      *)
(* whose two greatest scores are equal, and above 0                         *)
C14_Witness ==
    /\ Calibrated(1)
    /\ RunnerUp(frame[1].level_scores) = MaxScore(frame[1].level_scores)
    /\ MaxScore(frame[1].level_scores) # Zero
    /\ frame[1].confidence < Dec(95, 100)
    /\ frame[1].confidence = Quotient(MaxScore(frame[1].level_scores), SumScores(frame[1].level_scores))

---------------------------------------------------------------------------
(* the call of thread p has left the validator, line 484, and not yet       *)
(* built its dict                                                           *)
Validated(p) == frame[p].pc = "respond"

(* confidence * (n / d) where the condition holds, capped at 0.95 *)
Raised(applies, confidence, n, d) ==
    IF applies THEN Min(Times(confidence, n, d), Dec(95, 100)) ELSE confidence

(* the confidence after each of the five steps the validator takes from    *)
(* the calibrator's value c0, in order                                      *)
ValidatorSteps(c0, question, level, document) ==
    LET words == Len(Split(question))
        c1 == IF words < 4 THEN Times(c0, 7, 10) ELSE c0
        c2 == Raised(words > 15, c1, 11, 10)
        c3 == Raised(Contains(question, "?"), c2, 21, 20)
        c4 == Raised(level # "Remembering" /\ words > 8, c3, 11, 10)
        c5 == Raised(Truthy(document) /\ Len(document.val) > 100, c4, 21, 20)
    IN <<c1, c2, c3, c4, c5>>

StepsOf(p) ==
    ValidatorSteps(determine_level_with_confidence(frame[p].level_scores).confidence,
                   frame[p].question_text.val, frame[p].detected_level,
                   frame[p].document_text)

(* C15: the validator turns the calibrator's confidence into the value of   *)
(* five steps taken in order, each only where its condition holds: x 0.7    *)
(* under 4 words; x 1.1 over 15 words; x 1.05 with a '?'; x 1.1 for a level *)
(* other than Remembering over 8 words; x 1.05 with a document longer than  *)
(* 100 characters; each raising step is capped at 0.95, the last value is   *)
(* clamped to [0.1, 0.95], and no step after the first lowers the value.    *)
C15_ValidatorSteps ==
    \A p \in Threads :
        Validated(p) =>
            LET c == StepsOf(p)
            IN /\ frame[p].confidence = Max(Dec(1, 10), Min(c[5], Dec(95, 100)))
               /\ \A i \in 2..5 : c[i - 1] <= c[i] /\ c[i] <= Dec(95, 100)
               /\ frame[p].confidence >= c[1]

(* the validator has raised a confidence three times, for the '?', for the *)
(* level and for the long document, and the result stays under the cap      *)
C15_Witness ==
    /\ Validated(1)
    /\ Len(Split(frame[1].question_text.val)) \in 9..15
    /\ Contains(frame[1].question_text.val, "?")
    /\ frame[1].detected_level # "Remembering"
    /\ frame[1].document_text = PyStr(DocLong)
    /\ StepsOf(1)[2] < StepsOf(1)[3]
    /\ StepsOf(1)[3] < StepsOf(1)[4]
    /\ StepsOf(1)[4] < StepsOf(1)[5]
    /\ frame[1].confidence < Dec(95, 100)

---------------------------------------------------------------------------
(* the scoreboard of thread p is complete and every score on it is 0, so    *)
(* that the calibrator takes, or has taken, its fallback                    *)
AllZero(p) ==
    /\ frame[p].pc \in {"decide", "validate", "respond", "done"}
    /\ DOMAIN frame[p].level_scores = LevelSet
    /\ \A l \in LevelSet : frame[p].level_scores[l] = Zero

(* C16: whenever the six scores are all 0 the question has fewer than 4     *)
(* words, the validator leaves a confidence below 0.5, and the confidence   *)
(* returned is below 0.5.                                                   *)
C16_ZeroBoardShort ==
    \A p \in Threads :
        AllZero(p) =>
            /\ Len(Split(frame[p].question_text.val)) < 4
            /\ Validated(p) => frame[p].confidence < Dec(5, 10)
            /\ Returned(p) => result[p].confidence < 50

(* a question of two words has scored 0 on every level and returned 0.35   *)
C16_Witness ==
    /\ AllZero(1)
    /\ Returned(1)
    /\ Len(Split(frame[1].question_text.val)) = 2
    /\ result[1].actual_level = "Remembering"
    /\ result[1].confidence = 35

---------------------------------------------------------------------------
(* a document that is a str and not empty *)
IsDocument(d) == d.type = "str" /\ d.val # ""

(* the calls of p and q are at the same stage, both before or both after    *)
(* line 478, and did not fail                                               *)
SameStage(p, q) ==
    /\ frame[p].exc = "" /\ frame[q].exc = ""
    /\ (frame[p].pc \in {"score", "special"}) = (frame[q].pc \in {"score", "special"})
    /\ frame[p].pc # "idle" /\ frame[q].pc # "idle"

(* C17: two calls with the same question and two documents, each a str     *)
(* that is not empty, carry the same score for every level other than      *)
(* Creating, on the scoreboard and in the dict returned.                    *)
C17_DocumentBlind ==
    \A p, q \in Threads :
        ( /\ SameStage(p, q)
          /\ frame[p].question_text = frame[q].question_text
          /\ IsDocument(frame[p].document_text)
          /\ IsDocument(frame[q].document_text) ) =>
            /\ \A l \in (LevelSet \ {"Creating"}) \cap DOMAIN frame[p].level_scores
                                    \cap DOMAIN frame[q].level_scores :
                   frame[p].level_scores[l] = frame[q].level_scores[l]
            /\ (Returned(p) /\ Returned(q)) =>
                   \A l \in LevelSet \ {"Creating"} : result[p].scores[l] = result[q].scores[l]

(* one question has been classified with a document that holds a term of   *)
(* the question and with one that does not: the two dicts differ in the     *)
(* score of Creating                                                        *)
C17_Witness ==
    /\ Returned(1) /\ Returned(2)
    /\ frame[1].question_text = frame[2].question_text
    /\ frame[1].document_text = PyStr(DocPlain)
    /\ frame[2].document_text = PyStr(DocLong)
    /\ result[1].scores["Creating"] > result[2].scores["Creating"]
    /\ \A l \in LevelSet \ {"Creating"} : result[1].scores[l] = result[2].scores[l]

---------------------------------------------------------------------------
(* what the document step, lines 463-469, adds to the score of a level in  *)
(* the call of thread p                                                     *)
DocumentContribution(p, level) ==
    DocumentScore(Zero, frame[p].document_text, frame[p].question_text.val,
                  frame[p].document_lower, level)

(* what each of the five steps of the loop body, lines 444-473, adds to the *)
(* score of a level in the call of thread p                                 *)
Contributions(p, level) ==
    LET f == frame[p]
        data == blooms_processes[level]
    IN [keyword |-> KeywordScore(Zero, data, f.question_clean),
        pattern |-> PatternScore(Zero, data, f.question_lower),
        verb |-> VerbScore(Zero, data, f.question_clean),
        document |-> DocumentContribution(p, level),
        complexity |-> analyze_question_complexity(f.question_text.val, level,
                                                   data.complexity_threshold)]

(* the level the scoring loop of thread p has just stored a score for, if   *)
(* the call is in the loop or has just left it                              *)
ScoredLevels(p) ==
    IF frame[p].pc \in {"score", "special"} /\ frame[p].level_scores # <<>>
    THEN {Levels[Cardinality(DOMAIN frame[p].level_scores)]}
    ELSE {}

(* C18 as stated: each of the five contributions to the score of a level    *)
(* is >= 0.                                                                 *)
C18_Original ==
    \A p \in Threads : \A l \in ScoredLevels(p) :
        \A k \in DOMAIN Contributions(p, l) : ~DLess(Contributions(p, l)[k], Zero)

(* C18: the keyword, pattern, verb and document contributions to the score *)
(* of a level are >= 0; the complexity contribution is 0.8, 0 or -0.8, and  *)
(* the score stored for the level is >= 0.                                  *)
C18_Contributions ==
    \A p \in Threads : \A l \in ScoredLevels(p) :
        LET c == Contributions(p, l)
        IN /\ \A k \in {"keyword", "pattern", "verb", "document"} : ~DLess(c[k], Zero)
           /\ c.complexity \in {Literal(80), Zero, Literal(-80)}
           /\ ~DLess(frame[p].level_scores[l], Zero)

(* the loop has scored Creating for a question with a keyword of Creating   *)
(* and a complexity contribution of -0.8                                    *)
C18_Witness ==
    /\ "Creating" \in ScoredLevels(1)
    /\ Contributions(1, "Creating").complexity = Literal(-80)
    /\ DLess(Zero, Contributions(1, "Creating").keyword)
    /\ DLess(Zero, frame[1].level_scores["Creating"])

---------------------------------------------------------------------------
(* the question matches one of the citation phrasings, line 532 *)
Cites(question) ==
    \E i \in 1..Len(doc_references) : Search(doc_references[i], Lower(question))

(* the question asks to create or design and one of its capitalised or     *)
(* numeric tokens occurs in the lowered document, lines 540-547             *)
ExtendsDocument(question, document_lower) ==
    /\ \/ Contains(Lower(question), "create a new")
       \/ Contains(Lower(question), "design an alternative")
    /\ \E term \in ContentTerms(question) : Contains(document_lower, Lower(term))

(* the document contribution to a level in hundredths: 250 or 100 for a     *)
(* citation, 150 more for Creating extending the document, the whole times  *)
(* 1.5 for the four upper levels, and 0 without a document                  *)
DocumentHundredths(question, document, level) ==
    IF ~Truthy(document) THEN 0
    ELSE LET base == IF Cites(question)
                     THEN (IF level \in {"Analyzing", "Evaluating"} THEN 250 ELSE 100)
                     ELSE 0
             more == IF level = "Creating" /\ ExtendsDocument(question, Lower(document.val))
                     THEN 150 ELSE 0
         IN IF level \in {"Applying", "Analyzing", "Evaluating", "Creating"}
            THEN ((base + more) * 3) \div 2
            ELSE base + more

(* C19: the document contribution to a level is 0 when the document is     *)
(* None or empty; with a document it is 2.5 (Analyzing, Evaluating) or 1.0  *)
(* (other levels) once if the question matches a citation phrasing, plus    *)
(* 1.5 for Creating if the question asks to create or design and one of     *)
(* its capitalised or numeric tokens occurs in the lowered document, the    *)
(* whole times 1.5 for Applying, Analyzing, Evaluating and Creating; it     *)
(* lies between 0 and 3.75.                                                 *)
C19_DocumentContribution ==
    \A p \in Threads : \A l \in ScoredLevels(p) :
        LET h == DocumentHundredths(frame[p].question_text.val, frame[p].document_text, l)
        IN /\ DocumentContribution(p, l) = Literal(h)
           /\ h \in 0..375

(* Creating has been scored for a question that cites the text and asks to *)
(* create something named in the document: the contribution is 3.75         *)
C19_Witness ==
    /\ "Creating" \in ScoredLevels(1)
    /\ Truthy(frame[1].document_text)
    /\ Cites(frame[1].question_text.val)
    /\ ExtendsDocument(frame[1].question_text.val, frame[1].document_lower)
    /\ DocumentContribution(1, "Creating") = Literal(375)

---------------------------------------------------------------------------
(* twenty times the complexity of a question, a whole number: the word     *)
(* count up to 10, plus 4 for a subordinating word or else 1, plus 2 for a  *)
(* coordinating word, plus 2 for a modal                                    *)
ComplexityTwentieths(question) ==
    LET text == Lower(question)
    IN Min(Len(Split(question)), 10)
         + (IF AnyIn({"because", "although", "while", "if", "when", "unless", "since"}, text)
            THEN 4 ELSE 1)
         + (IF AnyIn({"and", "but", "or", "however", "therefore", "thus"}, text) THEN 2 ELSE 0)
         + (IF AnyIn({"would", "could", "might", "should"}, text) THEN 2 ELSE 0)

(* C20: the complexity contribution to a level with threshold t is 0.8 if   *)
(* complexity >= t, -0.8 if complexity < t - 0.2 and 0 otherwise, where     *)
(* complexity = (min(word count / 10, 1.0) + structural) / 2 and structural *)
(* is 0.4 with a subordinating word or else 0.1, plus 0.2 with a            *)
(* coordinating word, plus 0.2 with a modal (t is held in hundredths).      *)
C20_ComplexityBands ==
    \A p \in Threads : \A l \in ScoredLevels(p) :
        LET c == ComplexityTwentieths(frame[p].question_text.val)
            t == blooms_processes[l].complexity_threshold
        IN analyze_question_complexity(frame[p].question_text.val, l, t) =
               IF 5 * c >= t THEN Literal(80)
               ELSE IF 5 * c < t - 20 THEN Literal(-80)
                    ELSE Zero

---------------------------------------------------------------------------
(* the score of a level after the keyword, pattern and verb steps, lines    *)
(* 444-461, in the call of thread p                                         *)
Lexical(p, level) ==
    LET data == blooms_processes[level]
    IN VerbScore(PatternScore(KeywordScore(Zero, data, frame[p].question_clean),
                              data, frame[p].question_lower),
                 data, frame[p].question_clean)

(* the keywords and the patterns of a level that match, and the verbs of    *)
(* the level among the first three words of question_clean                  *)
MatchingKeywords(p, level) ==
    {k \in {blooms_processes[level].keywords[i] :
                i \in 1..Len(blooms_processes[level].keywords)} :
        SearchWord(k, frame[p].question_clean)}

MatchingPatterns(p, level) ==
    {r \in {blooms_processes[level].question_patterns[i] :
                i \in 1..Len(blooms_processes[level].question_patterns)} :
        Search(r, frame[p].question_lower)}

EarlyVerbs(p, level) ==
    LET words == Split(frame[p].question_clean)
    IN {i \in 1..Min(3, Len(words)) : words[i] \in blooms_processes[level].verbs}

(* C21: the score of a level after the keyword, pattern and verb steps is  *)
(* 1.5 * weight for each keyword of the level found in question_clean on    *)
(* word boundaries, plus 2.0 * weight for each pattern of the level found   *)
(* in question_lower, plus 1.0 * weight once if any of the first three      *)
(* words of question_clean is a verb of the level (up to the rounding       *)
(* error of the double additions); a verb at the fourth word or later adds  *)
(* nothing.                                                                 *)
C21_LexicalScore ==
    \A p \in Threads : \A l \in ScoredLevels(p) :
        LET w == blooms_processes[l].weight
            v == Lexical(p, l)
            h == (w * (3 * Cardinality(MatchingKeywords(p, l))
                         + 4 * Cardinality(MatchingPatterns(p, l))
                         + (IF EarlyVerbs(p, l) # {} THEN 2 ELSE 0))) \div 2
        IN v[1] = h /\ v[2] < 2^20 /\ -v[2] < 2^20

(* Understanding has been scored for a question with two of its verbs among *)
(* the first three words and a keyword found                                *)
C21_Witness ==
    /\ ScoredLevels(1) = {"Understanding"}
    /\ Cardinality(EarlyVerbs(1, "Understanding")) >= 2
    /\ MatchingKeywords(1, "Understanding") # {}

---------------------------------------------------------------------------
(* the order in which a call moves through analyze_question_blooms_level   *)
PipelineOrder ==
    { <<"idle", "score">>, <<"idle", "except">>, <<"score", "special">>,
      <<"special", "decide">>, <<"decide", "validate">>, <<"decide", "except">>,
      <<"validate", "respond">>, <<"respond", "done">>, <<"except", "done">>,
      <<"done", "score">>, <<"done", "except">> }

(* the sum of the five contributions to a level in the call of thread p *)
RawOf(p, level) ==
    RawScore(level, frame[p].document_text, frame[p].question_text.val,
             frame[p].question_lower, frame[p].document_lower, frame[p].question_clean)

(* the scoreboard of thread p with every sum floored at 0 *)
FlooredBoard(p) == [l \in LevelSet |-> DMax(RawOf(p, l), Zero)]

(* the dict of thread p reports the scoreboard of its frame *)
ReportsBoard(p) ==
    /\ DOMAIN result[p].scores = LevelSet
    /\ \A l \in LevelSet : result[p].scores[l] = Round2(frame[p].level_scores[l])
    /\ Contains(result[p].explanation,
                " Score breakdown: "
                    \o JoinScores(frame[p].level_scores, KeysInOrder(frame[p].level_scores), 1)
                    \o ".")

(* C22: a call goes through its steps in one order; the special-case rules *)
(* run once, on the scoreboard of the sums floored at 0, and add to it;     *)
(* the scoreboard does not change after that; the level detected carries    *)
(* the greatest adjusted score, and the scores returned and printed are     *)
(* the adjusted ones.                                                       *)
C22_PipelineOrder ==
    [][\A p \in Threads :
          LET f == frame[p]
              g == frame'[p]
          IN /\ f.pc # g.pc => <<f.pc, g.pc>> \in PipelineOrder
             /\ f.pc = "special" =>
                    /\ f.level_scores = FlooredBoard(p)
                    /\ g.pc = "decide" =>
                           g.level_scores =
                               handle_special_cases(f.question_text.val, FlooredBoard(p))
             /\ f.pc \in {"decide", "validate", "respond"} =>
                    g.level_scores = f.level_scores
             /\ (f.pc = "decide" /\ g.pc = "validate") =>
                    \A l \in LevelSet :
                        ~DLess(f.level_scores[g.detected_level], f.level_scores[l])
             /\ (f.pc = "respond" /\ g.pc = "done") =>
                    /\ result'[p].actual_level = f.detected_level
                    /\ \A l \in LevelSet :
                           result'[p].scores[l] = Round2(f.level_scores[l])
                    /\ Contains(result'[p].explanation,
                                " Score breakdown: "
                                    \o JoinScores(f.level_scores, KeysInOrder(f.level_scores), 1)
                                    \o ".")
      ]_vars

(* the rule for "why " has added 1.5 to an Analyzing score of 0 where the  *)
(* five contributions sum to less than 0, and the dict returned reports it  *)
C22_Witness ==
    /\ Returned(1)
    /\ ~Failed(1)
    /\ StartsWith(Lower(frame[1].question_text.val), "why ")
    /\ DLess(RawOf(1, "Analyzing"), Zero)
    /\ frame[1].level_scores["Analyzing"] = Literal(150)
    /\ ReportsBoard(1)

---------------------------------------------------------------------------
(* question_text.lower() begins with "what did" or "what happened" *)
BeginsWhatDid(question) ==
    \/ StartsWith(Lower(question), "what did")
    \/ StartsWith(Lower(question), "what happened")

BeginsHow(question) == StartsWith(Lower(question), "how ")

BeginsWhy(question) == StartsWith(Lower(question), "why ")

(* thread p takes the step of line 478 *)
RulesRun(p) == frame[p].pc = "special" /\ frame'[p].pc = "decide"

(* C23: where the question begins with "what did" or "what happened" in    *)
(* any case, line 478 adds 2.5 to Remembering and turns every other score   *)
(* s into max(s - 1.5, 0); where it does not, the first rule changes no     *)
(* score: Remembering and Evaluating keep theirs, and so does every level   *)
(* of a question that begins with neither "how " nor "why ".                *)
C23_WhatDidRule ==
    [][\A p \in Threads :
          RulesRun(p) =>
              LET q == frame[p].question_text.val
                  before == frame[p].level_scores
                  after == frame'[p].level_scores
              IN IF BeginsWhatDid(q)
                 THEN /\ after["Remembering"] = DAdd(before["Remembering"], Literal(250))
                      /\ \A l \in LevelSet \ {"Remembering"} :
                             after[l] = DMax(DSub(before[l], Literal(150)), Zero)
                 ELSE /\ after["Remembering"] = before["Remembering"]
                      /\ after["Evaluating"] = before["Evaluating"]
                      /\ (~BeginsHow(q) /\ ~BeginsWhy(q)) => after = before
      ]_vars

(* the first rule has run on a question in capitals: Remembering stands    *)
(* 2.5 above its floored sum and a level that stood between 0 and 1.5 is    *)
(* at 0                                                                     *)
C23_Witness ==
    /\ frame[1].pc = "decide"
    /\ BeginsWhatDid(frame[1].question_text.val)
    /\ ~StartsWith(frame[1].question_text.val, "what")
    /\ frame[1].level_scores["Remembering"]
           = DAdd(FlooredBoard(1)["Remembering"], Literal(250))
    /\ \E l \in LevelSet \ {"Remembering"} :
           /\ DLess(Zero, FlooredBoard(1)[l])
           /\ frame[1].level_scores[l] = Zero

---------------------------------------------------------------------------
(* a scoreboard with the hundredths of add put on top of its scores, the   *)
(* levels that add does not name left as they are                           *)
Plus(scores, add) ==
    [l \in DOMAIN scores |->
        IF l \in DOMAIN add THEN DAdd(scores[l], Literal(add[l])) ELSE scores[l]]

(* what the second rule adds for a question that begins with "how ": the   *)
(* first of its three branches that applies, or nothing                     *)
HowBonus(question) ==
    LET text == Lower(question)
    IN IF Contains(text, "how to")
       THEN [l \in {"Applying"} |-> 150]
       ELSE IF Contains(text, "how would") \/ Contains(text, "how could")
            THEN [l \in {"Applying", "Creating"} |-> 100]
            ELSE IF Contains(text, "how does") \/ Contains(text, "how did")
                 THEN [l \in {"Understanding", "Analyzing"} |->
                          IF l = "Understanding" THEN 100 ELSE 50]
                 ELSE <<>>

(* C24: for a question that begins with "how ", line 478 applies the first *)
(* of three branches that matches and no other: "how to" adds 1.5 to        *)
(* Applying; else "how would" or "how could" adds 1.0 to Applying and to    *)
(* Creating; else "how does" or "how did" adds 1.0 to Understanding and     *)
(* 0.5 to Analyzing; a question with "how to" and "how would" gets the      *)
(* first alone, and one that matches no branch keeps its scores.            *)
C24_HowRule ==
    [][\A p \in Threads :
          (RulesRun(p) /\ BeginsHow(frame[p].question_text.val)) =>
              frame'[p].level_scores =
                  Plus(frame[p].level_scores, HowBonus(frame[p].question_text.val))
      ]_vars

(* the rule has run on a question with "how to" and "how would": Applying  *)
(* stands 1.5 above its floored sum and Creating where it was               *)
C24_Witness ==
    /\ frame[1].pc = "decide"
    /\ BeginsHow(frame[1].question_text.val)
    /\ Contains(Lower(frame[1].question_text.val), "how to")
    /\ Contains(Lower(frame[1].question_text.val), "how would")
    /\ frame[1].level_scores["Applying"] = DAdd(FlooredBoard(1)["Applying"], Literal(150))
    /\ frame[1].level_scores["Creating"] = FlooredBoard(1)["Creating"]

---------------------------------------------------------------------------
(* what the third rule adds *)
WhyBonus == [l \in {"Understanding", "Analyzing"} |-> IF l = "Understanding" THEN 100 ELSE 150]

(* C25: for a question that begins with "why ", line 478 adds 1.0 to        *)
(* Understanding and 1.5 to Analyzing and leaves the scores of Remembering, *)
(* Applying, Evaluating and Creating as they were.                          *)
C25_WhyRule ==
    [][\A p \in Threads :
          (RulesRun(p) /\ BeginsWhy(frame[p].question_text.val)) =>
              /\ frame'[p].level_scores = Plus(frame[p].level_scores, WhyBonus)
              /\ \A l \in {"Remembering", "Applying", "Evaluating", "Creating"} :
                     frame'[p].level_scores[l] = frame[p].level_scores[l]
      ]_vars

(* the rule has run on a question whose Remembering score is above 0:      *)
(* Understanding and Analyzing stand 1.0 and 1.5 above their floored sums   *)
(* and Remembering where it was                                             *)
C25_Witness ==
    /\ frame[1].pc = "decide"
    /\ BeginsWhy(frame[1].question_text.val)
    /\ DLess(Zero, frame[1].level_scores["Remembering"])
    /\ frame[1].level_scores["Remembering"] = FlooredBoard(1)["Remembering"]
    /\ frame[1].level_scores["Understanding"]
           = DAdd(FlooredBoard(1)["Understanding"], Literal(100))
    /\ frame[1].level_scores["Analyzing"]
           = DAdd(FlooredBoard(1)["Analyzing"], Literal(150))

---------------------------------------------------------------------------
(* the rules of _handle_special_cases whose condition on the start of the  *)
(* question holds                                                           *)
RulesFiring(question) ==
    {r \in {"what", "how", "why"} :
        \/ r = "what" /\ BeginsWhatDid(question)
        \/ r = "how" /\ BeginsHow(question)
        \/ r = "why" /\ BeginsWhy(question)}

(* the scoreboards that scores becomes under no rule or under one rule *)
OneRule(question, scores) ==
    LET first_rule == [l \in DOMAIN scores |->
                          IF l = "Remembering"
                          THEN DAdd(scores[l], Literal(250))
                          ELSE DMax(DSub(scores[l], Literal(150)), Zero)]
    IN {scores, first_rule, Plus(scores, HowBonus(question)), Plus(scores, WhyBonus)}

(* C26: the conditions of the three rules on the start of the question are *)
(* pairwise disjoint, so at most one rule fires in a call, and the          *)
(* scoreboard line 478 leaves carries the adjustments of at most one rule.  *)
C26_OneRule ==
    [][\A p \in Threads :
          RulesRun(p) =>
              /\ Cardinality(RulesFiring(frame[p].question_text.val)) <= 1
              /\ frame'[p].level_scores
                     \in OneRule(frame[p].question_text.val, frame[p].level_scores)
              /\ RulesFiring(frame[p].question_text.val) = {} =>
                     frame'[p].level_scores = frame[p].level_scores
      ]_vars

(* the second rule has run alone on a question that begins with "how " and *)
(* holds "why " further on                                                  *)
C26_Witness ==
    /\ frame[1].pc = "decide"
    /\ RulesFiring(frame[1].question_text.val) = {"how"}
    /\ Contains(Lower(frame[1].question_text.val), "why ")
    /\ frame[1].level_scores
           = Plus(FlooredBoard(1), HowBonus(frame[1].question_text.val))
    /\ frame[1].level_scores # Plus(Plus(FlooredBoard(1),
                                         HowBonus(frame[1].question_text.val)), WhyBonus)

---------------------------------------------------------------------------
(* C27: the explanation of a call that did not fail ends with the           *)
(* close-decision note exactly when the greatest score minus the second     *)
(* greatest is < 1.0; the level the note names is the second entry of the   *)
(* scores sorted in descending order, equal scores in the order             *)
(* Remembering .. Creating, and is not actual_level.                        *)
C27_CloseDecision ==
    \A p \in Threads :
        (Returned(p) /\ ~Failed(p)) =>
            LET r == result[p]
                Ahead(level) ==
                    {m \in LevelSet :
                        \/ r.scores[m] > r.scores[level]
                        \/ r.scores[m] = r.scores[level] /\ Rank(m) < Rank(level)}
                EntryAt(n) == CHOOSE l \in LevelSet : Cardinality(Ahead(l)) = n - 1
                top == r.scores[EntryAt(1)]
                second == EntryAt(2)
            IN IF top - r.scores[second] < 100
               THEN /\ Contains(r.explanation,
                                " This was a close decision with '" \o second \o "'.")
                    /\ second # r.actual_level
               ELSE ~Contains(r.explanation, " This was a close decision with '")

---------------------------------------------------------------------------
(* C28: in a call that does not fail the confidence the calibrator returns *)
(* is at least 1/6, the confidence the validator computes is at least 0.7/6 *)
(* before its final clamp, which is above 0.1, so the clamp's lower bound   *)
(* 0.1 is never the value returned.                                         *)
C28_ConfidenceFloor ==
    \A p \in Threads :
        /\ Calibrated(p) => 6 * frame[p].confidence >= One
        /\ Validated(p) =>
               LET last == StepsOf(p)[5]
               IN /\ 6 * last >= 7 * (One \div 10)
                  /\ last > Dec(1, 10)
                  /\ frame[p].confidence = Min(last, Dec(95, 100))

(* the validator has been left with a confidence under 0.3 by a scoreboard *)
(* whose greatest score is less than a quarter of the total                 *)
C28_Witness ==
    /\ Validated(1)
    /\ ~AllZero(1)
    /\ determine_level_with_confidence(frame[1].level_scores).confidence < Dec(25, 100)
    /\ frame[1].confidence < Dec(30, 100)

---------------------------------------------------------------------------
(* C29: for one question the complexity contribution does not increase      *)
(* along Remembering .. Creating: where a level receives -0.8 every higher   *)
(* level receives -0.8, and where a level receives +0.8 every lower level    *)
(* receives +0.8; the complexity lies in [0.05, 0.9]; Remembering never      *)
(* receives -0.8.                                                            *)
C29_ComplexityOrder ==
    \A p \in Threads : \A l \in ScoredLevels(p) :
        LET c == TotalComplexity(frame[p].question_text.val)
            ComplexityOf(x, level) ==
                ComplexityAdjustment(x, blooms_processes[level].complexity_threshold)
        IN /\ \A m \in LevelSet :
                  Rank(l) < Rank(m) =>
                      /\ ~DLess(ComplexityOf(c, l), ComplexityOf(c, m))
                      /\ ComplexityOf(c, l) = Literal(-80) => ComplexityOf(c, m) = Literal(-80)
                      /\ ComplexityOf(c, m) = Literal(80) => ComplexityOf(c, l) = Literal(80)
           /\ ~DLess(c, Literal(5))
           /\ ~DLess(Literal(90), c)
           /\ ComplexityOf(c, "Remembering") # Literal(-80)

(* the loop has scored Creating for a question that receives +0.8 at        *)
(* Remembering, 0 at a level between and -0.8 at Creating                    *)
C29_Witness ==
    /\ ScoredLevels(1) = {"Creating"}
    /\ LET c == TotalComplexity(frame[1].question_text.val)
           threshold(level) == blooms_processes[level].complexity_threshold
       IN /\ ComplexityAdjustment(c, threshold("Remembering")) = Literal(80)
          /\ \E l \in LevelSet : ComplexityAdjustment(c, threshold(l)) = Zero
          /\ ComplexityAdjustment(c, threshold("Creating")) = Literal(-80)

---------------------------------------------------------------------------
(* C30: whitespace before or after the question does not change the        *)
(* classification: a call that does not fail returns the scores and the     *)
(* actual_level a call returns for the same document, the same selected     *)
(* level and the question with that whitespace taken off.                   *)
C30_WhitespaceBlind ==
    \A p \in Threads :
        (/\ Returned(p)
         /\ ~Failed(p)
         /\ Strip(frame[p].question_text.val) # frame[p].question_text.val) =>
            LET stripped == [ArgsOf(p) EXCEPT
                                !.question_text = PyStr(Strip(frame[p].question_text.val))]
            IN /\ result[p].scores = Alone(stripped).scores
               /\ result[p].actual_level = Alone(stripped).actual_level

=============================================================================
